---- MODULE Spec2Model ----
(***************************************************************************)
(* Budget forecast, alerting and reallocation engine of budget/predict.py. *)
(*                                                                         *)
(* The persistent store is the two tables the engine reads (budget_items   *)
(* and expenses, in insertion order).  The Prophet library is an external  *)
(* collaborator: for a ledger it either raises or returns a forecast, and  *)
(* the variable prophet holds what it returns for each (project, category) *)
(* on the ledger as it stands.  The tables rental_items and                *)
(* budget_timeline belong to the rental and timeline endpoints, and today  *)
(* is the date datetime.utcnow().date() returns.  The variable gemini is   *)
(* the call to the Gemini API that is in progress in one of the assistant  *)
(* services (item_focus.py, agentic_ai.py, schedule.py).                   *)
(*                                                                         *)
(* Money is a float in the source.  Here it is an exact rational, held as  *)
(* an integer number of base units: one cent is Cent base units, and Cent  *)
(* is divisible by 100 and by 2^Halvings so that a percentage of an        *)
(* amount and the repeated halving of a remaining need are exact.          *)
(***************************************************************************)
EXTENDS Integers, Sequences, FiniteSets, TLC

VARIABLES budget_items, expenses, rental_items, budget_timeline, today,
          prophet, response, fit_log, gemini

vars == <<budget_items, expenses, rental_items, budget_timeline, today,
          prophet, response, fit_log, gemini>>

\* the tables and the clock
store == <<budget_items, expenses, rental_items, budget_timeline, today>>

-----------------------------------------------------------------------------
(* Bounds of the model *)

\* rows of a budget in the family that varies planned, priority, flexible
MaxItems == 3
\* rows of a budget in the family with many surplus categories
WideItems == 5
\* expenses of the ledger in the family that varies the ledger
MaxExpenses == 4
\* rows of a budget in the family that varies the ledger
MaxBudgetRows == 1
\* data rows of an uploaded budget CSV
MaxCsvRows == 2
\* expenses recorded by uploads
MaxLedger == 2
\* rows of rental_items and of budget_timeline
MaxRentals == 1
MaxTimeline == 1

-----------------------------------------------------------------------------
(* Arithmetic *)

RECURSIVE Pow2(_)
Pow2(n) == IF n = 0 THEN 1 ELSE 2 * Pow2(n - 1)

Max(a, b) == IF a >= b THEN a ELSE b
Min(a, b) == IF a <= b THEN a ELSE b
Abs(a) == IF a < 0 THEN -a ELSE a

RECURSIVE GCD(_, _)
GCD(a, b) == IF b = 0 THEN a ELSE GCD(b, a % b)

\* number of halvings of a remaining need that must stay exact
Halvings == Max(MaxItems, WideItems)
\* base units per cent (0.01 of the currency)
Cent == 100 * Pow2(Halvings)

\* round(x, 2): to the nearest cent.  An exact tie goes to the even cent; in
\* the source a tie goes the way the float's representation error points
Round2(x) ==
    LET q == x \div Cent
        r == x % Cent
    IN  IF 2 * r < Cent THEN q * Cent
        ELSE IF 2 * r > Cent THEN (q + 1) * Cent
        ELSE IF q % 2 = 0 THEN q * Cent ELSE (q + 1) * Cent

\* a / b < c / d for b, d > 0
RatLess(a, b, c, d) ==
    LET g == GCD(b, d)
    IN  a * (d \div g) < c * (b \div g)

\* Python's None, and a value that is not None
None == {}
Some(v) == {v}
IsNone(o) == o = {}
Val(o) == CHOOSE v \in o : TRUE

-----------------------------------------------------------------------------
(* Tables *)

Projects == {"p1", "p2"}
Cats == <<"Food", "Props", "Equipment", "Actors", "Locations", "Transportation">>
CatSet == {Cats[i] : i \in 1..Len(Cats)}

\* a row of budget_items; planned_null tells that the planned_amount column,
\* which is nullable, holds NULL
BudgetItem(c, planned, p, prio, flex) ==
    [category |-> c, planned_amount |-> planned, planned_null |-> FALSE,
     project_id |-> p, priority |-> prio, flexible |-> flex]

\* the day the service is started on, as a day number
FirstDay == 1

\* a row of expenses; amount_null tells that the amount column holds NULL
\* (what SQLite stores for a NaN), and amount is then 0
ExpenseRow(p, amt, c, d, isnull) ==
    [project_id |-> p, amount |-> amt, category |-> c, date |-> d,
     amount_null |-> isnull]

Expense(p, amt, c) == ExpenseRow(p, amt, c, FirstDay, FALSE)

\* sum of a column, NULLs left out
RECURSIVE SumAmounts(_)
SumAmounts(es) ==
    IF es = <<>> THEN 0 ELSE Head(es).amount + SumAmounts(Tail(es))

\* order_by(Expense.date): rows of one date stay in insertion order
RECURSIVE InsertByDate(_, _)
InsertByDate(sorted, x) ==
    IF sorted = <<>> THEN <<x>>
    ELSE IF x.date < Head(sorted).date THEN <<x>> \o sorted
    ELSE <<Head(sorted)>> \o InsertByDate(Tail(sorted), x)

RECURSIVE OrderByDate(_, _)
OrderByDate(acc, rest) ==
    IF rest = <<>> THEN acc
    ELSE OrderByDate(InsertByDate(acc, Head(rest)), Tail(rest))

\* session.query(BudgetItem).filter_by(project_id=project_id).all()
ItemsOf(p) == SelectSeq(budget_items, LAMBDA b : b.project_id = p)

\* session.query(Expense).filter_by(project_id=.., category=..).order_by(Expense.date).all()
ExpensesOf(p, c) ==
    OrderByDate(<<>>, SelectSeq(expenses,
                         LAMBDA e : e.project_id = p /\ e.category = c))

\* session.query(func.sum(Expense.amount)).filter_by(..).scalar() or 0
TotalSpent(p, c) == SumAmounts(ExpensesOf(p, c))

-----------------------------------------------------------------------------
(* predict_category_spending *)

\* fewest expenses of a category for which a forecast is attempted
MinHistoryOff == 3 - 1
MinHistory == 3
\* horizon used by the alerts, the reallocation and (by default) the predictions
DaysAhead == 30
\* observations of the recent mean
RecentWindow == 5

\* what Prophet does on a ledger: raises (ok = FALSE), or returns the sum of
\* the predicted daily values over the horizon and their spread, from which
\* the code derives the confidence
FitOutcome(ok, sum, conf) == [ok |-> ok, yhat_sum |-> sum, confidence |-> conf]
FitFails == FitOutcome(FALSE, 0, "low")

\* df_exp.tail(5)
RecentOf(es) ==
    IF Len(es) <= RecentWindow THEN es
    ELSE SubSeq(es, Len(es) - RecentWindow + 1, Len(es))

\* the thresholds of the trend taken as inclusive
TrendInclusive(yhat_sum, days, es) ==
    LET n == Len(SelectSeq(RecentOf(es), LAMBDA e : ~e.amount_null))
        s == SumAmounts(RecentOf(es))
        g == GCD(Abs(yhat_sum * n), Abs(days * s))
        d == (yhat_sum * n - days * s) \div g
        b == (days * s) \div g
    IN  IF s <= 0 THEN "stable"
        ELSE IF 5 * d >= b THEN "accelerating"
        ELSE IF 20 * d >= b THEN "increasing"
        ELSE IF 20 * d <= -b THEN "decreasing"
        ELSE "stable"

\* trend from trend_pct = (future_avg - recent_actual) / recent_actual * 100,
\* with future_avg = yhat_sum / days and recent_actual = s / n
Trend(yhat_sum, days, es) ==
    LET n == Len(SelectSeq(RecentOf(es), LAMBDA e : ~e.amount_null))
        s == SumAmounts(RecentOf(es))
        g == GCD(Abs(yhat_sum * n), Abs(days * s))
        d == (yhat_sum * n - days * s) \div g    \* trend_pct = 100 * d / b
        b == (days * s) \div g
    IN  IF s <= 0 THEN "stable"
        ELSE IF 5 * d > b THEN "accelerating"
        ELSE IF 20 * d > b THEN "increasing"
        ELSE IF 20 * d < -b THEN "decreasing"
        ELSE "stable"

\* the model is fitted only past the early return of too short a history
FitAttempted(p, c) == Len(ExpensesOf(p, c)) >= MinHistory

PredictRaises(p, c, days_ahead) ==
    LET es == ExpensesOf(p, c)
        fit == prophet[<<p, c>>]
    IN  IF Len(es) < MinHistory
        THEN [predicted_total |-> None, trend |-> "insufficient_data",
              confidence |-> "low", raised |-> FALSE]
        ELSE IF ~fit.ok
        THEN [predicted_total |-> None, trend |-> "error",
              confidence |-> "low", raised |-> TRUE]
        ELSE [predicted_total |-> Some(Round2(fit.yhat_sum)),
              trend |-> Trend(fit.yhat_sum, days_ahead, es),
              confidence |-> fit.confidence, raised |-> FALSE]

\* the dict returned; raised tells whether an exception left the function
predict_category_spending(p, c, days_ahead) ==
    LET es == ExpensesOf(p, c)
        fit == prophet[<<p, c>>]
    IN  IF Len(es) < MinHistory
        THEN [predicted_total |-> None, trend |-> "insufficient_data",
              confidence |-> "low", raised |-> FALSE]
        ELSE IF ~fit.ok
        THEN [predicted_total |-> None, trend |-> "error",
              confidence |-> "low", raised |-> FALSE]
        ELSE [predicted_total |-> Some(Round2(fit.yhat_sum)),
              trend |-> Trend(fit.yhat_sum, days_ahead, es),
              confidence |-> fit.confidence, raised |-> FALSE]

-----------------------------------------------------------------------------
(* check_budget_alerts *)

\* utilization percentage the high_utilization alert needs to exceed
HighUtilization == 85
\* overshoot percentage from which a predicted overspend is critical
CriticalOvershoot == 20

\* session.query(BudgetItem).filter_by(project_id=.., category=..).first()
PlannedOf(p, c) ==
    SelectSeq(budget_items, LAMBDA b : b.project_id = p /\ b.category = c)

\* utilization > 85, utilization = spent / planned * 100 if planned > 0 else 0
UtilizationAtLeast(spent, planned) ==
    planned > 0 /\ spent * 100 >= HighUtilization * planned

UtilizationAbove(spent, planned) ==
    planned > 0 /\ spent * 100 > HighUtilization * planned

\* overshoot_pct < 20, overshoot_pct = overshoot / planned * 100 with
\* overshoot > 0 a numpy float: a zero planned amount gives inf, not an error
OvershootBelow(overshoot, planned) ==
    IF planned = 0 THEN FALSE
    ELSE IF planned > 0 THEN overshoot * 100 < CriticalOvershoot * planned
    ELSE TRUE

SpendAlertsNoElif(spent, planned) ==
    (IF spent > planned
     THEN <<[type |-> "overspend", severity |-> "critical"]>> ELSE <<>>)
    \o (IF UtilizationAbove(spent, planned)
        THEN <<[type |-> "high_utilization", severity |-> "warning"]>> ELSE <<>>)

SpendAlertsSwapped(spent, planned) ==
    IF UtilizationAbove(spent, planned)
    THEN <<[type |-> "high_utilization", severity |-> "warning"]>>
    ELSE IF spent > planned
    THEN <<[type |-> "overspend", severity |-> "critical"]>>
    ELSE <<>>

\* the overspend / high_utilization branch
SpendAlerts(spent, planned) ==
    IF spent > planned
    THEN <<[type |-> "overspend", severity |-> "critical"]>>
    ELSE IF UtilizationAbove(spent, planned)
    THEN <<[type |-> "high_utilization", severity |-> "warning"]>>
    ELSE <<>>

PredictiveAlertsElse(spent, planned, prediction, already) ==
    IF already # <<>> \/ IsNone(prediction.predicted_total) THEN <<>>
    ELSE LET predicted_end == spent + Val(prediction.predicted_total)
         IN  IF predicted_end > planned
             THEN <<[type |-> "predictive_overspend",
                     severity |-> IF OvershootBelow(predicted_end - planned, planned)
                                  THEN "warning" ELSE "critical",
                     confidence |-> prediction.confidence]>>
             ELSE <<>>

\* the predictive_overspend branch; already = the alerts of the first branch
PredictiveAlerts(spent, planned, prediction, already) ==
    IF IsNone(prediction.predicted_total) THEN <<>>
    ELSE LET predicted_end == spent + Val(prediction.predicted_total)
         IN  IF predicted_end > planned
             THEN <<[type |-> "predictive_overspend",
                     severity |-> IF OvershootBelow(predicted_end - planned, planned)
                                  THEN "warning" ELSE "critical",
                     confidence |-> prediction.confidence]>>
             ELSE <<>>

CheckAlertsNoPlan(p, c) ==
    LET rows == PlannedOf(p, c)
        planned == IF rows = <<>> THEN 0 ELSE Head(rows).planned_amount
        total_spent == TotalSpent(p, c)
        first == SpendAlerts(total_spent, planned)
    IN  first \o PredictiveAlerts(total_spent, planned,
                      predict_category_spending(p, c, DaysAhead), first)

\* planned.planned_amount > 0 raises TypeError when the column holds NULL
PlannedIsNull(p, c) ==
    PlannedOf(p, c) # <<>> /\ Head(PlannedOf(p, c)).planned_null

\* the indexes of the budget items of p whose alerts raise
AlertsRaising(p) ==
    {i \in 1..Len(ItemsOf(p)) : PlannedIsNull(p, ItemsOf(p)[i].category)}

\* the alerts returned; none when the comparison raises
check_budget_alerts(p, c) ==
    LET rows == PlannedOf(p, c)
    IN  IF rows = <<>> \/ PlannedIsNull(p, c) THEN <<>>
        ELSE LET planned == Head(rows).planned_amount
                 total_spent == TotalSpent(p, c)
                 first == SpendAlerts(total_spent, planned)
             IN  first \o PredictiveAlerts(total_spent, planned,
                               predict_category_spending(p, c, DaysAhead), first)

\* the categories Prophet was fitted on by check_budget_alerts(p, c)
AlertFits(p, c) ==
    IF PlannedOf(p, c) # <<>> /\ ~PlannedIsNull(p, c) /\ FitAttempted(p, c)
    THEN {<<p, c>>} ELSE {}

-----------------------------------------------------------------------------
(* calculate_reallocation_suggestions *)

\* share of the remaining need below which a source is skipped: 0.05 = 1 / 20
MeaningfulShare == 20
\* flexible is held as a percentage: 0.15 is 15
FlexUnit == 100

\* the entry of categories_analysis for a budget item with a forecast;
\* overspend_pct is the fraction pct_num / pct_den (times 100)
Analyse(item, p) ==
    LET total_spent == TotalSpent(p, item.category)
        prediction == predict_category_spending(p, item.category, DaysAhead)
        predicted_total_end == total_spent + Val(prediction.predicted_total)
        overspend_amount == predicted_total_end - item.planned_amount
    IN  [category |-> item.category,
         planned |-> item.planned_amount,
         spent |-> total_spent,
         predicted_total |-> predicted_total_end,
         overspend_amount |-> overspend_amount,
         pct_num |-> IF item.planned_amount > 0 THEN overspend_amount ELSE 0,
         pct_den |-> IF item.planned_amount > 0 THEN item.planned_amount ELSE 1,
         trend |-> prediction.trend,
         confidence |-> prediction.confidence,
         priority |-> item.priority,
         flexible |-> item.flexible]

HasForecast(item, p) ==
    ~IsNone(predict_category_spending(p, item.category, DaysAhead).predicted_total)

\* predicted_total_end - item.planned_amount raises TypeError on NULL
AnalysisRaises(item, p) == item.planned_null /\ HasForecast(item, p)

\* the indexes of the budget items the loop raises on
AnalysisRaising(p) ==
    {i \in 1..Len(ItemsOf(p)) : AnalysisRaises(ItemsOf(p)[i], p)}

RECURSIVE AnalyseAll(_, _)
AnalyseAll(items, p) ==
    IF items = <<>> THEN <<>>
    ELSE (IF HasForecast(Head(items), p) THEN <<Analyse(Head(items), p)>> ELSE <<>>)
         \o AnalyseAll(Tail(items), p)

categories_analysis(p) == AnalyseAll(ItemsOf(p), p)

\* the sort keys: does x go strictly before y
Before(kind, x, y) ==
    IF kind = "deficit"
    THEN RatLess(y.pct_num, y.pct_den, x.pct_num, x.pct_den)
    ELSE \/ x.priority < y.priority
         \/ x.priority = y.priority /\ x.flexible > y.flexible

\* list.sort is stable: x goes after every element it does not precede
RECURSIVE InsertLast(_, _, _)
InsertLast(kind, sorted, x) ==
    IF sorted = <<>> THEN <<x>>
    ELSE IF Before(kind, x, Head(sorted)) THEN <<x>> \o sorted
    ELSE <<Head(sorted)>> \o InsertLast(kind, Tail(sorted), x)

RECURSIVE InsertFirst(_, _, _)
InsertFirst(kind, sorted, x) ==
    IF sorted = <<>> THEN <<x>>
    ELSE IF ~Before(kind, Head(sorted), x) THEN <<x>> \o sorted
    ELSE <<Head(sorted)>> \o InsertFirst(kind, Tail(sorted), x)

RECURSIVE SortInto(_, _, _)
SortInto(kind, acc, rest) ==
    IF rest = <<>> THEN acc
    ELSE SortInto(kind, InsertLast(kind, acc, Head(rest)), Tail(rest))

RECURSIVE UnstableInto(_, _, _)
UnstableInto(kind, acc, rest) ==
    IF rest = <<>> THEN acc
    ELSE UnstableInto(kind, InsertFirst(kind, acc, Head(rest)), Tail(rest))

UnstableSort(kind, seq) == UnstableInto(kind, <<>>, seq)

StableSort(kind, seq) == SortInto(kind, <<>>, seq)

deficit_categories(analysis) ==
    StableSort("deficit", SelectSeq(analysis, LAMBDA c : c.overspend_amount > 0))

surplus_categories(analysis) ==
    StableSort("surplus", SelectSeq(analysis, LAMBDA c : c.overspend_amount < 0))

\* available = abs(surplus_cat["overspend_amount"]) * surplus_cat["flexible"]
Available(surplus_cat) ==
    (Abs(surplus_cat.overspend_amount) * surplus_cat.flexible) \div FlexUnit

\* available < needed * 0.05
TooSmall(available, needed) == available * MeaningfulShare < needed

TransferAll(available, needed) == Min(available, needed)

\* transfer_amount = min(available, needed * 0.5)
Transfer(available, needed) == Min(available, needed \div 2)

\* "amount": round(transfer_amount, 2)
Amount(transfer_amount) == Round2(transfer_amount)

\* one pass of the inner loop over surplus_categories[i..] for one deficit:
\* the visits made, each with the need before and after it
RECURSIVE Draw(_, _, _, _)
Draw(deficit_cat, surplus, i, needed) ==
    IF i > Len(surplus) THEN <<>>
    ELSE LET surplus_cat == surplus[i]
             available == Available(surplus_cat)
             visit == [from_category |-> surplus_cat.category,
                       to_category |-> deficit_cat.category,
                       needed |-> needed, available |-> available]
         IN  IF TooSmall(available, needed)
             THEN <<visit @@ [emitted |-> FALSE, transfer_amount |-> 0,
                              amount |-> 0, needed_after |-> needed]>>
                  \o Draw(deficit_cat, surplus, i + 1, needed)
             ELSE LET transfer_amount == Transfer(available, needed)
                      left == needed - transfer_amount
                  IN  <<visit @@ [emitted |-> TRUE,
                                  transfer_amount |-> transfer_amount,
                                  amount |-> Amount(transfer_amount),
                                  needed_after |-> left]>>
                      \o (IF left <= 0 THEN <<>>
                          ELSE Draw(deficit_cat, surplus, i + 1, left))

RECURSIVE DrawAll(_, _)
DrawAll(deficits, surplus) ==
    IF deficits = <<>> THEN <<>>
    ELSE Draw(Head(deficits), surplus, 1, Head(deficits).overspend_amount)
         \o DrawAll(Tail(deficits), surplus)

\* every visit of the two loops, in order
Visits(p) ==
    IF Len(ItemsOf(p)) < 2 THEN <<>>
    ELSE LET analysis == categories_analysis(p)
         IN  DrawAll(deficit_categories(analysis), surplus_categories(analysis))

Suggestion(v) ==
    [from_category |-> v.from_category, to_category |-> v.to_category,
     amount |-> v.amount]

RECURSIVE Emitted(_)
Emitted(visits) ==
    IF visits = <<>> THEN <<>>
    ELSE (IF Head(visits).emitted THEN <<Suggestion(Head(visits))>> ELSE <<>>)
         \o Emitted(Tail(visits))

calculate_reallocation_suggestions(p) == Emitted(Visits(p))

\* the categories Prophet was fitted on by a loop over the budget items of p
RECURSIVE ItemFits(_, _)
ItemFits(items, p) ==
    IF items = <<>> THEN {}
    ELSE (IF FitAttempted(p, Head(items).category)
          THEN {<<p, Head(items).category>>} ELSE {})
         \cup ItemFits(Tail(items), p)

-----------------------------------------------------------------------------
(* Endpoints *)

\* an exception that escapes a prediction reaches the endpoint's handler
RECURSIVE AnyRaised(_, _, _)
AnyRaised(items, p, days_ahead) ==
    /\ items # <<>>
    /\ \/ predict_category_spending(p, Head(items).category, days_ahead).raised
       \/ AnyRaised(Tail(items), p, days_ahead)

\* prediction.get("predicted_total") and ...: None and 0 are both false
Truthy(o) == ~IsNone(o) /\ Val(o) # 0

\* ... > item.planned_amount is evaluated when the total is truthy, and
\* raises TypeError on NULL
StatusRaises(item, p, days_ahead) ==
    /\ item.planned_null
    /\ Truthy(predict_category_spending(p, item.category, days_ahead)
                  .predicted_total)

\* the indexes of the budget items the loop of the endpoint raises on
StatusRaising(p, days_ahead) ==
    {i \in 1..Len(ItemsOf(p)) : StatusRaises(ItemsOf(p)[i], p, days_ahead)}

\* the items a loop has reached when it ends: all of them, or those up to
\* the first it raises on
FirstOf(S) == CHOOSE x \in S : \A y \in S : x <= y
ReachedItems(items, raising) ==
    IF raising = {} THEN items ELSE SubSeq(items, 1, FirstOf(raising))

PredictionEntry(item, p, days_ahead) ==
    LET total_spent == TotalSpent(p, item.category)
        prediction == predict_category_spending(p, item.category, days_ahead)
    IN  [category |-> item.category,
         current_spent |-> Round2(total_spent),
         planned_budget |-> item.planned_amount,
         prediction |-> prediction,
         status |-> IF /\ Truthy(prediction.predicted_total)
                       /\ total_spent + Val(prediction.predicted_total)
                              > item.planned_amount
                    THEN "at_risk" ELSE "on_track"]

RECURSIVE PredictionEntries(_, _, _)
PredictionEntries(items, p, days_ahead) ==
    IF items = <<>> THEN <<>>
    ELSE <<PredictionEntry(Head(items), p, days_ahead)>>
         \o PredictionEntries(Tail(items), p, days_ahead)

\* GET /project/{project_id}/predictions
get_project_predictions(p, days_ahead) ==
    IF \/ AnyRaised(ItemsOf(p), p, days_ahead)
       \/ StatusRaising(p, days_ahead) # {}
    THEN [op |-> "get_project_predictions", status |-> 500, project_id |-> p]
    ELSE [op |-> "get_project_predictions", status |-> 200, project_id |-> p,
          forecast_days |-> days_ahead,
          predictions |-> PredictionEntries(ItemsOf(p), p, days_ahead)]

\* GET /project/{project_id}/reallocation_suggestions; visits is the trace
\* of the loops that produced the suggestions
get_reallocation_suggestions(p) ==
    LET visits == Visits(p)
        suggestions == Emitted(visits)     \* calculate_reallocation_suggestions(p)
    IN  IF /\ Len(ItemsOf(p)) >= 2
           /\ \/ AnyRaised(ItemsOf(p), p, DaysAhead)
              \/ AnalysisRaising(p) # {}
        THEN [op |-> "get_reallocation_suggestions", status |-> 500,
              project_id |-> p]
        ELSE IF suggestions = <<>>
        THEN [op |-> "get_reallocation_suggestions", status |-> 200,
              project_id |-> p, balanced |-> TRUE,
              suggestions |-> <<>>, visits |-> visits]
        ELSE [op |-> "get_reallocation_suggestions", status |-> 200,
              project_id |-> p, balanced |-> FALSE,
              total_suggested_reallocation |-> Round2(SumAmounts(suggestions)),
              suggestion_count |-> Len(suggestions),
              suggestions |-> suggestions, visits |-> visits]

-----------------------------------------------------------------------------
(* Summary and health check *)

\* the rows of a project in the ledger, in insertion order
LedgerOf(p) == SelectSeq(expenses, LAMBDA e : e.project_id = p)

\* func.sum(Expense.amount) of a group of rows: None if every amount is NULL
GroupSum(es) ==
    IF \A k \in 1..Len(es) : es[k].amount_null THEN None
    ELSE Some(SumAmounts(es))

\* the groups of group_by(Expense.category): the categories of the ledger
SpentCategories(p) == {LedgerOf(p)[k].category : k \in 1..Len(LedgerOf(p))}

\* next((e.total_spent for e in ... if e.category == item.category), 0.0)
SpentIn(p, c) ==
    IF c \in SpentCategories(p) THEN GroupSum(ExpensesOf(p, c)) ELSE Some(0)

SummaryEntry(item, p) ==
    LET spent == Val(SpentIn(p, item.category))
    IN  [category |-> item.category, planned |-> item.planned_amount,
         spent |-> spent, remaining |-> Max(0, item.planned_amount - spent),
         \* utilization_percentage = util_num / util_den
         util_num |-> IF item.planned_amount > 0 THEN spent * 100 ELSE 0,
         util_den |-> IF item.planned_amount > 0 THEN item.planned_amount ELSE 1]

RECURSIVE SumPlanned(_)
SumPlanned(items) ==
    IF items = <<>> THEN 0
    ELSE Head(items).planned_amount + SumPlanned(Tail(items))

\* GET /project/{project_id}/summary; a group whose sum is None, or a planned
\* amount that is NULL, makes the arithmetic raise
get_project_summary(p) ==
    LET items == ItemsOf(p)
        total_planned == SumPlanned(items)
        total_spent == SumAmounts(LedgerOf(p))
    IN  IF \/ \E c \in SpentCategories(p) : IsNone(GroupSum(ExpensesOf(p, c)))
           \/ \E i \in 1..Len(items) : items[i].planned_null
        THEN [op |-> "get_project_summary", status |-> 500, project_id |-> p]
        ELSE [op |-> "get_project_summary", status |-> 200, project_id |-> p,
              summary |-> [i \in 1..Len(items) |-> SummaryEntry(items[i], p)],
              overall |->
                [total_planned |-> total_planned, total_spent |-> total_spent,
                 total_remaining |-> Max(0, total_planned - total_spent),
                 util_num |-> IF total_planned > 0 THEN total_spent * 100 ELSE 0,
                 util_den |-> IF total_planned > 0 THEN total_planned ELSE 1]]

\* deductions of the health score
CriticalPenalty == 15
WarningPenalty == 5
FullHealth == 100

\* all_alerts: the alerts of every budget item, in order
RECURSIVE AllAlerts(_, _)
AllAlerts(items, p) ==
    IF items = <<>> THEN <<>>
    ELSE check_budget_alerts(p, Head(items).category) \o AllAlerts(Tail(items), p)

RECURSIVE Deductions(_)
Deductions(alerts) ==
    IF alerts = <<>> THEN 0
    ELSE (IF Head(alerts).severity = "critical" THEN CriticalPenalty
          ELSE IF Head(alerts).severity = "warning" THEN WarningPenalty
          ELSE 0) + Deductions(Tail(alerts))

\* health_score = max(0, health_score)
FloorOff(score) == score

Floor(score) == Max(0, score)

HealthStatus(health_score) ==
    IF health_score >= 85 THEN "excellent"
    ELSE IF health_score >= 70 THEN "good"
    ELSE IF health_score >= 50 THEN "concerning"
    ELSE "critical"

CountSeverity(alerts, severity) ==
    Len(SelectSeq(alerts, LAMBDA a : a.severity = severity))

\* GET /project/{project_id}/health_check
project_health_check(p) ==
    LET all_alerts == AllAlerts(ItemsOf(p), p)
        health_score == Floor(FullHealth - Deductions(all_alerts))
    IN  IF \/ AnyRaised(ItemsOf(p), p, DaysAhead)
           \/ AlertsRaising(p) # {}
        THEN [op |-> "project_health_check", status |-> 500, project_id |-> p]
        ELSE [op |-> "project_health_check", status |-> 200, project_id |-> p,
              health_score |-> health_score,
              health_status |-> HealthStatus(health_score),
              total_alerts |-> Len(all_alerts),
              critical_alerts |-> CountSeverity(all_alerts, "critical"),
              warnings |-> CountSeverity(all_alerts, "warning"),
              alerts |-> all_alerts]

-----------------------------------------------------------------------------
(* Receipts and categorization *)

\* str.lower() on the words of the texts; a text is a sequence of tokens:
\* words, blanks and line breaks
Lower(w) ==
    CASE w = "Lunch" -> "lunch"
      [] w = "Truck" -> "truck"
      [] w = "CAMERA" -> "camera"
      [] OTHER -> w

LowerText(text) == [i \in 1..Len(text) |-> Lower(text[i])]

\* an uploaded receipt: its content type, whether PIL can open it, what the
\* three OCR passes return, and the numbers (in cents) the amount patterns
\* capture in the combined text
Receipt(present, content_type, decodable, pages, matches) ==
    [present |-> present, content_type |-> content_type,
     decodable |-> decodable, pages |-> pages, matches |-> matches]

NoReceipt == Receipt(FALSE, <<>>, FALSE, <<>>, {})

\* receipt and receipt.content_type and receipt.content_type.startswith('image/')
IsImage(receipt) ==
    receipt.present /\ receipt.content_type # <<>>
        /\ Head(receipt.content_type) = "image/"

\* "\n".join(...) of the OCR passes
RECURSIVE JoinLines(_)
JoinLines(pages) ==
    IF pages = <<>> THEN <<>>
    ELSE IF Len(pages) = 1 THEN Head(pages)
    ELSE Head(pages) \o <<"\n">> \o JoinLines(Tail(pages))

\* 0.10 <= amt <= 1000000, in cents
MinOcrCents == 10
MaxOcrCents == 100000000

SetMax(S) == CHOOSE x \in S : \A y \in S : y <= x

\* (final_amount, combined_text); (None, "") when anything raises
extract_amount_and_text_from_receipt(receipt) ==
    IF ~receipt.decodable THEN [amount |-> None, text |-> <<>>]
    ELSE LET amounts == {m \in receipt.matches :
                            MinOcrCents <= m /\ m <= MaxOcrCents}
         IN  [amount |-> IF amounts = {} THEN None
                         ELSE Some(SetMax(amounts) * Cent),
              text |-> JoinLines(receipt.pages)]

\* category_patterns, in the order of the dict; a pattern is the tokens
\* between its two \b
category_patterns ==
    <<[category |-> "Food",
       patterns |-> {<<"food">>, <<"catering">>, <<"meal">>, <<"lunch">>,
                     <<"dinner">>, <<"breakfast">>, <<"snack">>,
                     <<"restaurant">>}],
      [category |-> "Actors",
       patterns |-> {<<"actor">>, <<"talent">>, <<"cast">>, <<"stunt">>,
                     <<"extra">>}],
      [category |-> "Props",
       patterns |-> {<<"prop">>, <<"furniture">>, <<"set", " ", "dressing">>}],
      [category |-> "Locations",
       patterns |-> {<<"location">>, <<"venue">>, <<"site">>, <<"permits">>}],
      [category |-> "Equipment",
       patterns |-> {<<"equipment">>, <<"camera">>, <<"light">>, <<"sound">>}],
      [category |-> "Transportation",
       patterns |-> {<<"transport">>, <<"vehicle">>, <<"truck">>, <<"fuel">>,
                     <<"parking">>, <<"gas">>}]>>

\* len(re.findall(pattern, text_lower))
FindAll(pattern, text) ==
    Cardinality({i \in 1..(Len(text) - Len(pattern) + 1) :
                    SubSeq(text, i, i + Len(pattern) - 1) = pattern})

RECURSIVE SumFindAll(_, _)
SumFindAll(patterns, text) ==
    IF patterns = {} THEN 0
    ELSE LET pattern == CHOOSE x \in patterns : TRUE
         IN  FindAll(pattern, text) + SumFindAll(patterns \ {pattern}, text)

\* score of the k-th category of the table; 0 if the project lacks it
ScoreOf(k, text, available_categories) ==
    IF category_patterns[k].category \notin available_categories THEN 0
    ELSE 2 * SumFindAll(category_patterns[k].patterns, LowerText(text))

\* category_scores, with 0 for a category that has no entry
Scores(text, available_categories) ==
    [k \in 1..Len(category_patterns) |-> ScoreOf(k, text, available_categories)]

\* max(category_scores.items(), key=...) over the first k categories: the
\* first entry of the highest score, 0 if there is no entry
RECURSIVE MaxScoreLast(_, _)
MaxScoreLast(scores, k) ==
    IF k = 0 THEN 0
    ELSE LET best == MaxScoreLast(scores, k - 1)
         IN  IF scores[k] > 0 /\ (best = 0 \/ scores[k] >= scores[best])
             THEN k ELSE best

RECURSIVE MaxScore(_, _)
MaxScore(scores, k) ==
    IF k = 0 THEN 0
    ELSE LET best == MaxScore(scores, k - 1)
         IN  IF scores[k] > 0 /\ (best = 0 \/ scores[k] > scores[best])
             THEN k ELSE best

categorize_expense_smart(text, available_categories) ==
    IF text = <<>> THEN "Misc"
    ELSE LET best == MaxScore(Scores(text, available_categories),
                              Len(category_patterns))
         IN  IF best = 0 THEN "Misc" ELSE category_patterns[best].category

\* the distinct categories of the project's budget items, or ["Misc"]
get_available_categories(p) ==
    IF ItemsOf(p) = <<>> THEN {"Misc"}
    ELSE {ItemsOf(p)[i].category : i \in 1..Len(ItemsOf(p))}

-----------------------------------------------------------------------------
(* upload_budget_csv *)

\* defaults of the budget CSV columns
DefaultPriority == 1
DefaultFlexible == 15

\* an uploaded file: the pieces of its name, whether pandas can read it, the
\* columns of its header and its data rows (a cell for each known column; a
\* cell under a column the header lacks is never read)
CsvFile(name, readable, columns, rows) ==
    [filename |-> name, readable |-> readable, columns |-> columns,
     rows |-> rows]

\* a cell of the Category column is the characters between the separators,
\* as pieces of text and blanks
\* a cell of a numeric column: a number, or text float() cannot convert
NumberCell(v) == [numeric |-> TRUE, value |-> v, nan |-> FALSE]
TextCell == [numeric |-> FALSE, value |-> 0, nan |-> FALSE]
\* an empty cell: pandas reads NaN, float() keeps it, and SQLite stores a
\* NaN as NULL
EmptyCell == [numeric |-> TRUE, value |-> 0, nan |-> TRUE]

CsvRow(category, planned, prio, flex) ==
    [Category |-> category, Planned_Amount |-> planned, Priority |-> prio,
     Flexible |-> flex]

\* file.filename.endswith('.csv')
EndsWithCsv(name) == name # <<>> /\ name[Len(name)] = ".csv"

\* str.strip(): leading and trailing blanks removed
RECURSIVE LStrip(_)
LStrip(chars) ==
    IF chars # <<>> /\ Head(chars) = " " THEN LStrip(Tail(chars)) ELSE chars

RECURSIVE RStrip(_)
RStrip(chars) ==
    IF chars # <<>> /\ chars[Len(chars)] = " "
    THEN RStrip(SubSeq(chars, 1, Len(chars) - 1)) ELSE chars

RECURSIVE Join(_)
Join(chars) == IF chars = <<>> THEN "" ELSE Head(chars) \o Join(Tail(chars))

Strip(chars) == Join(RStrip(LStrip(chars)))

\* required_columns.issubset(df.columns)
RequiredColumns == {"Category", "Planned_Amount"}

\* float(row.get(column, default)), in the unit of the column
CellOr(row, columns, column, default) ==
    IF column \in columns THEN row[column] ELSE NumberCell(default)

\* the BudgetItem built from a row; ok is FALSE when a float() raises
ConvertRow(row, columns, p) ==
    LET prio == CellOr(row, columns, "Priority", DefaultPriority)
        flex == CellOr(row, columns, "Flexible", DefaultFlexible)
    IN  [ok |-> row.Planned_Amount.numeric /\ prio.numeric /\ flex.numeric,
         item |-> [BudgetItem(Strip(row.Category), row.Planned_Amount.value, p,
                              prio.value, flex.value)
                     EXCEPT !.planned_null = row.Planned_Amount.nan]]

\* the loop over df.iterrows(): the items built before a row raises
RECURSIVE ConvertRows(_, _, _)
ConvertRows(rows, columns, p) ==
    IF rows = <<>> THEN [ok |-> TRUE, items |-> <<>>]
    ELSE LET first == ConvertRow(Head(rows), columns, p)
             rest == ConvertRows(Tail(rows), columns, p)
         IN  IF ~first.ok THEN [ok |-> FALSE, items |-> <<>>]
             ELSE [ok |-> rest.ok, items |-> <<first.item>> \o rest.items]

\* session.query(BudgetItem).filter_by(project_id=project_id).delete():
\* the rows left in the session
ClearedNone(p) == budget_items

Cleared(p) == SelectSeq(budget_items, LAMBDA b : b.project_id # p)

\* session.rollback(): the table as last committed, not as the session left it
RollbackOff(committed, pending) == pending

Rollback(committed, pending) == committed

\* the exception raised inside the try block, "" if none; the session's view
\* of budget_items when it is raised is pending
UploadBudgetOutcome(p, file) ==
    IF ~EndsWithCsv(file.filename)
    THEN [raised |-> "HTTPException", raised_status |-> 400,
          pending |-> budget_items]
    ELSE IF ~file.readable
    THEN [raised |-> "ParserError", raised_status |-> 0,
          pending |-> budget_items]
    ELSE IF ~(RequiredColumns \subseteq file.columns)
    THEN [raised |-> "HTTPException", raised_status |-> 400,
          pending |-> budget_items]
    ELSE LET new_items == ConvertRows(file.rows, file.columns, p)
         IN  IF ~new_items.ok
             THEN [raised |-> "ValueError", raised_status |-> 0,
                   pending |-> Cleared(p)]
             ELSE [raised |-> "", raised_status |-> 0,
                   pending |-> Cleared(p) \o new_items.items]

\* POST /upload_budget_csv/: the response and the table afterwards; every
\* exception of the try block, HTTPException included, reaches except Exception
upload_budget_csv(p, file) ==
    LET outcome == UploadBudgetOutcome(p, file)
    IN  IF outcome.raised # ""
        THEN [op |-> "upload_budget_csv", status |-> 500, project_id |-> p,
              file |-> file, raised |-> outcome.raised,
              raised_status |-> outcome.raised_status, uploaded |-> 0,
              deleted |-> 0,
              budget_items |-> Rollback(budget_items, outcome.pending)]
        ELSE [op |-> "upload_budget_csv", status |-> 200, project_id |-> p,
              file |-> file, raised |-> "", raised_status |-> 0,
              uploaded |-> Len(file.rows),
              deleted |-> Len(ItemsOf(p)),
              budget_items |-> outcome.pending]

-----------------------------------------------------------------------------
(* upload_expense *)

\* the amount form field: absent (None), a number, or NaN
AmountArg(given, nan, value) == [given |-> given, nan |-> nan, value |-> value]
NoAmount == AmountArg(FALSE, FALSE, 0)
Amt(v) == AmountArg(TRUE, FALSE, v)
NanAmount == AmountArg(TRUE, TRUE, 0)

\* the date form field: absent, or a string strptime parses or rejects
DateArg(given, valid, day) == [given |-> given, valid |-> valid, day |-> day]
NoDate == DateArg(FALSE, FALSE, 0)

\* the form of a request; category "" and description <<>> stand for a field
\* that is absent or empty
ExpenseRequest(p, amount, category, receipt, description, date) ==
    [project_id |-> p, amount |-> amount, category |-> category,
     receipt |-> receipt, description |-> description, date |-> date]

\* (extracted_amount, receipt_text) of lines 386-390
Extracted(req) ==
    IF IsImage(req.receipt)
    THEN extract_amount_and_text_from_receipt(req.receipt)
    ELSE [amount |-> None, text |-> <<>>]

\* final_amount = extracted_amount if extracted_amount is not None else amount
FinalAmount(req) ==
    IF ~IsNone(Extracted(req).amount) THEN Amt(Val(Extracted(req).amount))
    ELSE req.amount

\* not final_amount or final_amount <= 0: None and 0 are false, NaN is true
\* and compares false
AmountRejected(a) == ~a.given \/ (~a.nan /\ a.value <= 0)

\* final_category of lines 399-402
FinalCategory(req) ==
    IF req.category # "" THEN req.category
    ELSE LET categorization_text ==
                 IF Extracted(req).text # <<>> THEN Extracted(req).text
                 ELSE req.description
         IN  IF categorization_text # <<>>
             THEN categorize_expense_smart(categorization_text,
                      get_available_categories(req.project_id))
             ELSE "Misc"

\* the try block up to the commit: the exception raised, "" if none, and
\* the row the session adds
UploadExpenseOutcome(req) ==
    IF req.date.given /\ ~req.date.valid
    THEN [raised |-> "ValueError", raised_status |-> 0,
          expense |-> ExpenseRow(req.project_id, 0, "", 0, FALSE)]
    ELSE IF AmountRejected(FinalAmount(req))
    THEN [raised |-> "HTTPException", raised_status |-> 400,
          expense |-> ExpenseRow(req.project_id, 0, "", 0, FALSE)]
    ELSE [raised |-> "", raised_status |-> 0,
          expense |-> ExpenseRow(req.project_id, FinalAmount(req).value,
                          FinalCategory(req),
                          IF req.date.given THEN req.date.day ELSE today,
                          FinalAmount(req).nan)]

-----------------------------------------------------------------------------
(* Rentals and timeline *)

\* a row of rental_items; id is the uuid, here the number of the insertion,
\* and returned_on is None until the rental is marked as returned
RentalItem(id, p, description, vendor, rental_fee, return_date, returned_on) ==
    [id |-> id, project_id |-> p, description |-> description,
     vendor |-> vendor, rental_fee |-> rental_fee,
     return_date |-> return_date, returned_on |-> returned_on]

\* POST /upload_rental_item/: every exception becomes a 500
upload_rental_item(p, description, vendor, rental_fee, return_date) ==
    IF ~return_date.given \/ ~return_date.valid
    THEN [op |-> "upload_rental_item", status |-> 500, project_id |-> p,
          rental_id |-> 0, rental_items |-> rental_items]
    ELSE [op |-> "upload_rental_item", status |-> 200, project_id |-> p,
          rental_id |-> Len(rental_items) + 1,
          rental_items |->
              Append(rental_items,
                     RentalItem(Len(rental_items) + 1, p, description, vendor,
                                rental_fee, return_date.day, None))]

\* POST /mark_rental_returned/
mark_rental_returned(rental_id) ==
    LET found == SelectSeq(rental_items, LAMBDA r : r.id = rental_id)
    IN  IF found = <<>>
        THEN [op |-> "mark_rental_returned", status |-> 404,
              rental_id |-> rental_id, already |-> FALSE,
              rental_items |-> rental_items]
        ELSE IF ~IsNone(Head(found).returned_on)
        THEN [op |-> "mark_rental_returned", status |-> 200,
              rental_id |-> rental_id, already |-> TRUE,
              rental_items |-> rental_items]
        ELSE [op |-> "mark_rental_returned", status |-> 200,
              rental_id |-> rental_id, already |-> FALSE,
              rental_items |->
                  [k \in 1..Len(rental_items) |->
                      IF rental_items[k].id = rental_id
                      THEN [rental_items[k] EXCEPT !.returned_on = Some(today)]
                      ELSE rental_items[k]]]

\* order_by(RentalItem.return_date): rows of one date stay in insertion order
RECURSIVE InsertByReturn(_, _)
InsertByReturn(sorted, x) ==
    IF sorted = <<>> THEN <<x>>
    ELSE IF x.return_date < Head(sorted).return_date THEN <<x>> \o sorted
    ELSE <<Head(sorted)>> \o InsertByReturn(Tail(sorted), x)

RECURSIVE OrderByReturn(_, _)
OrderByReturn(acc, rest) ==
    IF rest = <<>> THEN acc
    ELSE OrderByReturn(InsertByReturn(acc, Head(rest)), Tail(rest))

\* days within which an open rental is due soon
DueSoonDays == 3

RentalStatusByDate(rental) ==
    LET open == IsNone(rental.returned_on)
        is_overdue == rental.return_date < today
        is_due_soon == /\ rental.return_date >= today
                       /\ rental.return_date - today <= DueSoonDays
                       /\ open
    IN  [rental_id |-> rental.id, description |-> rental.description,
         vendor |-> rental.vendor, return_date |-> rental.return_date,
         status |-> IF is_overdue THEN "CRITICAL: OVERDUE"
                    ELSE IF is_due_soon THEN "WARNING: DUE SOON"
                    ELSE IF open THEN "Active" ELSE "Returned",
         severity |-> IF is_overdue THEN "critical"
                      ELSE IF is_due_soon THEN "warning" ELSE "info",
         days_until_due |-> IF open THEN rental.return_date - today ELSE 0]

RentalStatus(rental) ==
    LET open == IsNone(rental.returned_on)
        is_overdue == rental.return_date < today /\ open
        is_due_soon == /\ rental.return_date >= today
                       /\ rental.return_date - today <= DueSoonDays
                       /\ open
    IN  [rental_id |-> rental.id, description |-> rental.description,
         vendor |-> rental.vendor, return_date |-> rental.return_date,
         status |-> IF is_overdue THEN "CRITICAL: OVERDUE"
                    ELSE IF is_due_soon THEN "WARNING: DUE SOON"
                    ELSE IF open THEN "Active" ELSE "Returned",
         severity |-> IF is_overdue THEN "critical"
                      ELSE IF is_due_soon THEN "warning" ELSE "info",
         days_until_due |-> IF open THEN rental.return_date - today ELSE 0]

\* GET /project/{project_id}/rental_check
get_rental_status(p) ==
    LET rentals == OrderByReturn(<<>>,
                       SelectSeq(rental_items, LAMBDA r : r.project_id = p))
        status_list == [k \in 1..Len(rentals) |-> RentalStatus(rentals[k])]
    IN  [op |-> "get_rental_status", status |-> 200, project_id |-> p,
         rental_status |-> status_list,
         overdue_count |->
             Len(SelectSeq(status_list, LAMBDA x : x.severity = "critical"))]

\* a row of budget_timeline
BudgetTimeline(p, category, planned_daily_spend, target_date) ==
    [project_id |-> p, category |-> category,
     planned_daily_spend |-> planned_daily_spend, target_date |-> target_date]

\* POST /upload_timeline_data/: every exception becomes a 500
upload_timeline_data(p, category, planned_daily_spend, target_date) ==
    IF ~target_date.given \/ ~target_date.valid
    THEN [op |-> "upload_timeline_data", status |-> 500, project_id |-> p,
          budget_timeline |-> budget_timeline]
    ELSE [op |-> "upload_timeline_data", status |-> 200, project_id |-> p,
          budget_timeline |->
              Append(budget_timeline,
                     BudgetTimeline(p, category, planned_daily_spend,
                                    target_date.day))]

TimelineOf(p) == SelectSeq(budget_timeline, LAMBDA t : t.project_id = p)

RECURSIVE SumDaily(_)
SumDaily(rows) ==
    IF rows = <<>> THEN 0
    ELSE Head(rows).planned_daily_spend + SumDaily(Tail(rows))

\* the dates of the two aggregates
PlannedDates(p) == {TimelineOf(p)[k].target_date : k \in 1..Len(TimelineOf(p))}
ActualDates(p) == {LedgerOf(p)[k].date : k \in 1..Len(LedgerOf(p))}

PlannedOn(p, d) ==
    SumDaily(SelectSeq(TimelineOf(p), LAMBDA t : t.target_date = d))
ActualOn(p, d) == GroupSum(SelectSeq(LedgerOf(p), LAMBDA e : e.date = d))

\* timeline_data[date_str]
TimelineData(p, d) ==
    LET planned == IF d \in PlannedDates(p) THEN PlannedOn(p, d) ELSE 0
        actual == IF d \in ActualDates(p) THEN Val(ActualOn(p, d)) ELSE 0
    IN  [planned |-> planned, actual |-> actual, diff |-> actual - planned]

\* sorted(timeline_data.keys()): ISO dates sort as the days they denote
RECURSIVE SortedDates(_)
SortedDates(S) ==
    IF S = {} THEN <<>>
    ELSE LET first == CHOOSE d \in S : \A e \in S : d <= e
         IN  <<first>> \o SortedDates(S \ {first})

\* the loop over sorted_dates; cumulative sums up to the k-th date
RECURSIVE Cumulative(_, _, _, _)
Cumulative(p, dates, k, field) ==
    IF k = 0 THEN 0
    ELSE TimelineData(p, dates[k])[field] + Cumulative(p, dates, k - 1, field)

ComparisonEntry(p, dates, k) ==
    LET data == TimelineData(p, dates[k])
        cumulative_planned == Cumulative(p, dates, k, "planned")
        cumulative_actual == Cumulative(p, dates, k, "actual")
    IN  [date |-> dates[k],
         planned_daily |-> Round2(data.planned),
         actual_daily |-> Round2(data.actual),
         daily_difference |-> Round2(data.diff),
         cumulative_planned |-> Round2(cumulative_planned),
         cumulative_actual |-> Round2(cumulative_actual),
         cumulative_difference |-> Round2(cumulative_actual - cumulative_planned)]

\* GET /project/{project_id}/timeline_comparison; a date whose expenses all
\* have a NULL amount makes the arithmetic raise
get_timeline_comparison(p) ==
    LET dates == SortedDates(PlannedDates(p) \cup ActualDates(p))
        cumulative_planned == Cumulative(p, dates, Len(dates), "planned")
        cumulative_actual == Cumulative(p, dates, Len(dates), "actual")
    IN  IF \E d \in ActualDates(p) : IsNone(ActualOn(p, d))
        THEN [op |-> "get_timeline_comparison", status |-> 500,
              project_id |-> p]
        ELSE [op |-> "get_timeline_comparison", status |-> 200,
              project_id |-> p,
              comparison_by_date |->
                  [k \in 1..Len(dates) |-> ComparisonEntry(p, dates, k)],
              total_production_days_tracked |-> Len(dates),
              cumulative_total_difference |->
                  Round2(cumulative_actual - cumulative_planned),
              current_status |-> IF cumulative_actual > cumulative_planned
                                 THEN "Over Budget" ELSE "Under Budget"]

-----------------------------------------------------------------------------
(* Calls to the Gemini API *)

\* default of max_retries
DefaultRetries == 3

\* a call in progress: the function, its max_retries, the attempt of the for
\* loop, where the coroutine stands (request, sleep, done), the requests and
\* sleeps so far and how the call ended (value, none, raised)
GeminiCall(fn, max_retries, attempt, pc, events, result) ==
    [fn |-> fn, max_retries |-> max_retries, attempt |-> attempt, pc |-> pc,
     events |-> events, result |-> result]

NoCall == GeminiCall("", 0, 0, "idle", <<>>, "")

\* what one requests.post and the handling of its response come to, by the
\* except clause that catches it: a text is extracted ("text", and for the
\* structured call "bad_json" when json.loads rejects it), the response has
\* no text ("no_text"), requests raises ("RequestException": no connection,
\* a timeout, an HTTP error status), or anything else is raised before the
\* text is extracted ("Exception": a body of another shape, such as an empty
\* candidates list)
Outcomes == {"text", "no_text", "RequestException", "Exception"}
StructuredOutcomes == Outcomes \cup {"bad_json"}

\* the step taken after the k-th request: [pc, result]
Returns(result) == [pc |-> "done", result |-> result]
Sleeps == [pc |-> "sleep", result |-> ""]

\* except requests.exceptions.RequestException of the two retrying functions
Backoff(attempt, max_retries) ==
    IF attempt < max_retries - 1 THEN Sleeps ELSE Returns("none")

\* item_focus.call_gemini_api
call_gemini_api(outcome, attempt, max_retries) ==
    CASE outcome = "text" -> Returns("value")
      [] outcome = "no_text" -> Returns("none")
      [] outcome = "RequestException" -> Backoff(attempt, max_retries)
      [] OTHER -> Returns("none")

\* agentic_ai.call_gemini_api_structured: the handler of except Exception
\* logs json_text, which is unbound unless json.loads is what raised
call_gemini_api_structured(outcome, attempt, max_retries) ==
    CASE outcome = "text" -> Returns("value")
      [] outcome = "no_text" -> Returns("none")
      [] outcome = "bad_json" -> Returns("none")
      [] outcome = "RequestException" -> Backoff(attempt, max_retries)
      [] OTHER -> Returns("raised")

\* schedule.call_gemini_api: one request, no loop
schedule_call_gemini_api(outcome) ==
    CASE outcome = "text" -> Returns("value")
      [] OTHER -> Returns("none")

\* wait_time = 2 ** attempt
WaitTime(attempt) == Pow2(attempt)

-----------------------------------------------------------------------------
(* Actions: one per function or endpoint, on the store as it stands *)

\* categories the requests name
RequestCats == {Cats[1], Cats[2]}

\* half-widths of the interval Prophet estimates by simulation: its
\* posterior predictive samples are drawn anew, unseeded, on each predict
IntervalSamples == {Cent, 2 * Cent}

\* the dict with its upper_bound and lower_bound, None where the dict has no
\* such key
WithBounds(result, fit, half_width) ==
    [predicted_total |-> result.predicted_total, trend |-> result.trend,
     confidence |-> result.confidence, raised |-> result.raised,
     upper_bound |-> IF IsNone(result.predicted_total) THEN None
                     ELSE Some(Round2(fit.yhat_sum + half_width)),
     lower_bound |-> IF IsNone(result.predicted_total) THEN None
                     ELSE Some(Round2(fit.yhat_sum - half_width))]

PredictCategorySpending(p, c) ==
    /\ \E half_width \in IntervalSamples :
         response' = [op |-> "predict_category_spending", project_id |-> p,
                      category |-> c,
                      result |-> WithBounds(
                                     predict_category_spending(p, c, DaysAhead),
                                     prophet[<<p, c>>], half_width)]
    /\ fit_log' = IF FitAttempted(p, c) THEN {<<p, c>>} ELSE {}
    /\ UNCHANGED <<store, prophet, gemini>>

CheckBudgetAlerts(p, c) ==
    /\ response' = [op |-> "check_budget_alerts", project_id |-> p,
                    category |-> c,
                    raised |-> \/ PlannedIsNull(p, c)
                               \/ /\ PlannedOf(p, c) # <<>>
                                  /\ predict_category_spending(p, c, DaysAhead)
                                         .raised,
                    alerts |-> check_budget_alerts(p, c)]
    /\ fit_log' = AlertFits(p, c)
    /\ UNCHANGED <<store, prophet, gemini>>

GetProjectPredictions(p) ==
    /\ response' = get_project_predictions(p, DaysAhead)
    /\ fit_log' =
         ItemFits(ReachedItems(ItemsOf(p), StatusRaising(p, DaysAhead)), p)
    /\ UNCHANGED <<store, prophet, gemini>>

GetReallocationSuggestions(p) ==
    /\ response' = get_reallocation_suggestions(p)
    /\ fit_log' =
         IF Len(ItemsOf(p)) < 2 THEN {}
         ELSE ItemFits(ReachedItems(ItemsOf(p), AnalysisRaising(p)), p)
    /\ UNCHANGED <<store, prophet, gemini>>

GetProjectSummary(p) ==
    /\ response' = get_project_summary(p)
    /\ fit_log' = {}
    /\ UNCHANGED <<store, prophet, gemini>>

ProjectHealthCheck(p) ==
    /\ response' = project_health_check(p)
    /\ fit_log' =
         LET reached == ReachedItems(ItemsOf(p), AlertsRaising(p))
         IN  UNION {AlertFits(p, reached[i].category) : i \in 1..Len(reached)}
    /\ UNCHANGED <<store, prophet, gemini>>

\* the tables, the forecasts and the last response of the budget service
budget_service == <<store, prophet, response, fit_log>>

\* a service calls one of the three functions; range(max_retries) is empty
\* for max_retries <= 0
CallGemini(fn, max_retries) ==
    /\ gemini.pc \in {"idle", "done"}
    /\ gemini' = IF fn # "schedule" /\ max_retries <= 0
                 THEN GeminiCall(fn, max_retries, 0, "done", <<>>, "none")
                 ELSE GeminiCall(fn, max_retries, 0, "request", <<>>, "")
    /\ UNCHANGED budget_service

\* requests.post in a thread, and the handling of what it returns or raises
GeminiPost(outcome) ==
    /\ gemini.pc = "request"
    /\ outcome \in (IF gemini.fn = "agentic_ai" THEN StructuredOutcomes
                    ELSE Outcomes)
    /\ LET step == CASE gemini.fn = "item_focus" ->
                          call_gemini_api(outcome, gemini.attempt,
                                          gemini.max_retries)
                     [] gemini.fn = "agentic_ai" ->
                          call_gemini_api_structured(outcome, gemini.attempt,
                                                     gemini.max_retries)
                     [] OTHER -> schedule_call_gemini_api(outcome)
       IN  gemini' = [gemini EXCEPT
                        !.pc = step.pc, !.result = step.result,
                        !.events = Append(@, [kind |-> "post",
                                              outcome |-> outcome,
                                              attempt |-> gemini.attempt,
                                              wait |-> 0])]
    /\ UNCHANGED budget_service

\* await asyncio.sleep(wait_time), then the next pass of the loop
GeminiSleep ==
    /\ gemini.pc = "sleep"
    /\ gemini' = [gemini EXCEPT
                    !.pc = "request", !.attempt = @ + 1,
                    !.events = Append(@, [kind |-> "sleep", outcome |-> "",
                                          attempt |-> gemini.attempt,
                                          wait |-> WaitTime(gemini.attempt)])]
    /\ UNCHANGED budget_service

\* datetime.utcnow().date() moves on to the next day
Tick ==
    /\ today' = today + 1
    /\ UNCHANGED <<budget_items, expenses, rental_items, budget_timeline,
                   prophet, response, fit_log, gemini>>

UploadRentalItem(p, description, vendor, rental_fee, return_date) ==
    LET result == upload_rental_item(p, description, vendor, rental_fee,
                                     return_date)
    IN  /\ response' = [f \in DOMAIN result \ {"rental_items"} |-> result[f]]
        /\ rental_items' = result.rental_items
        /\ fit_log' = {}
        /\ UNCHANGED <<budget_items, expenses, budget_timeline, today, prophet, gemini>>

MarkRentalReturned(rental_id) ==
    LET result == mark_rental_returned(rental_id)
    IN  /\ response' = [f \in DOMAIN result \ {"rental_items"} |-> result[f]]
        /\ rental_items' = result.rental_items
        /\ fit_log' = {}
        /\ UNCHANGED <<budget_items, expenses, budget_timeline, today, prophet, gemini>>

GetRentalStatus(p) ==
    /\ response' = get_rental_status(p)
    /\ fit_log' = {}
    /\ UNCHANGED <<store, prophet, gemini>>

UploadTimelineData(p, category, planned_daily_spend, target_date) ==
    LET result == upload_timeline_data(p, category, planned_daily_spend,
                                       target_date)
    IN  /\ response' = [f \in DOMAIN result \ {"budget_timeline"} |-> result[f]]
        /\ budget_timeline' = result.budget_timeline
        /\ fit_log' = {}
        /\ UNCHANGED <<budget_items, expenses, rental_items, today, prophet, gemini>>

GetTimelineComparison(p) ==
    /\ response' = get_timeline_comparison(p)
    /\ fit_log' = {}
    /\ UNCHANGED <<store, prophet, gemini>>

UploadBudgetCsv(p, file) ==
    LET result == upload_budget_csv(p, file)
    IN  /\ response' = [f \in DOMAIN result \ {"budget_items"} |-> result[f]]
        /\ budget_items' = result.budget_items
        /\ fit_log' = {}
        /\ UNCHANGED <<expenses, rental_items, budget_timeline, today, prophet, gemini>>

\* session.add(expense); session.commit(): the ledger afterwards
CommittedFirst(ledger, expense) == <<expense>> \o ledger

Committed(ledger, expense) == Append(ledger, expense)

\* POST /upload_expense/.  An HTTPException keeps its status, any other
\* exception becomes a 500, both after a rollback.  The alerts and the total
\* are read after the commit; a NULL planned amount makes the alerts raise and
\* a NaN amount cannot be rendered as JSON, which both turn the response into
\* a 500 after the commit.  forecast is what Prophet
\* returns for the category on the ledger as it then stands
UploadExpense(req, forecast) ==
    \E outcome \in {UploadExpenseOutcome(req)},
       p \in {req.project_id} :
      \E c \in {outcome.expense.category} :
        IF outcome.raised # ""
        THEN /\ response' =
                  [op |-> "upload_expense",
                   status |-> IF outcome.raised = "HTTPException"
                              THEN outcome.raised_status ELSE 500,
                   project_id |-> p, request |-> req,
                   raised |-> outcome.raised, recorded |-> FALSE]
             /\ fit_log' = {}
             /\ UNCHANGED <<store, prophet, gemini>>
        ELSE /\ UNCHANGED <<budget_items, rental_items, budget_timeline, today,
                          gemini>>
             /\ expenses' = Committed(expenses, outcome.expense)
             /\ prophet' = IF Len(ExpensesOf(p, c)) + 1 >= MinHistory
                          THEN [prophet EXCEPT ![<<p, c>>] = forecast]
                          ELSE prophet
             /\ response' =
                  [op |-> "upload_expense",
                   status |-> IF \/ outcome.expense.amount_null
                                 \/ PlannedIsNull(p, c) THEN 500 ELSE 200,
                   project_id |-> p, request |-> req,
                   raised |-> IF PlannedIsNull(p, c) THEN "TypeError"
                              ELSE IF outcome.expense.amount_null
                              THEN "ValueError" ELSE "",
                   recorded |-> TRUE,
                   category |-> c,
                   amount |-> outcome.expense.amount,
                   total_spent_in_category |-> Round2(TotalSpent(p, c))',
                   alerts |-> check_budget_alerts(p, c)']
             /\ fit_log' = AlertFits(p, c)'

-----------------------------------------------------------------------------
(* Stores the engine is run on *)

NoResponse == [op |-> "none"]

\* three expenses of 4 cents for each of the first n categories
Ledger3(n) ==
    [k \in 1..(3 * n) |-> Expense("p1", 4 * Cent, Cats[((k - 1) \div 3) + 1])]

\* a forecast of 1.25 cents, reported as 0.01
SmallForecast == FitOutcome(TRUE, Cent + Cent \div 4, "high")

\* budgets that vary planned amount, priority and flexibility
PlannedRich == {0, 8 * Cent, 17 * Cent}
PriorityRich == {1, 2}
FlexibleRich == {0, 15, 100}

InitRich ==
    \E n \in 0..MaxItems :
      \E f \in [1..n -> PlannedRich \X PriorityRich \X FlexibleRich] :
        /\ budget_items =
             [i \in 1..n |-> BudgetItem(Cats[i], f[i][1], "p1", f[i][2], f[i][3])]
        /\ expenses = Ledger3(n)
        /\ prophet = [x \in Projects \X CatSet |-> SmallForecast]

\* budgets of many categories, with forecasts that may fail
PlannedWide == {10 * Cent, 17 * Cent}

InitWide ==
    \E n \in 0..WideItems :
      \E f \in [1..n -> PlannedWide \X BOOLEAN] :
        /\ budget_items =
             [i \in 1..n |-> BudgetItem(Cats[i], f[i][1], "p1",
                                        DefaultPriority, DefaultFlexible)]
        /\ expenses = Ledger3(n)
        /\ prophet = [x \in Projects \X CatSet |->
                        IF \E i \in 1..n : x = <<"p1", Cats[i]>> /\ ~f[i][2]
                        THEN FitFails ELSE SmallForecast]

\* budgets whose surplus gives less than half a cent: a surplus of 0.03 at a
\* flexibility of 0.15 next to deficits of 0.05
PlannedNear == {8 * Cent, 16 * Cent}

InitNear ==
    \E n \in 0..MaxItems :
      \E f \in [1..n -> PlannedNear] :
        /\ budget_items =
             [i \in 1..n |-> BudgetItem(Cats[i], f[i], "p1",
                                        DefaultPriority, DefaultFlexible)]
        /\ expenses = Ledger3(n)
        /\ prophet = [x \in Projects \X CatSet |-> SmallForecast]

\* ledgers of few expenses against a budget of few rows; another project's
\* rows are in the tables too
\* amounts that floats hold exactly: 5.00 planned, 0.25 and 4.25 spent,
\* forecasts reported as 0.00, 4.50 and 5.25
PlannedLedger == {0, 500 * Cent}
AmountLedger ==
    {<<Cats[1], 25 * Cent>>, <<Cats[1], 425 * Cent>>, <<Cats[2], 25 * Cent>>}
ForecastLedger ==
    {FitFails, FitOutcome(TRUE, 0, "high"),
     FitOutcome(TRUE, 450 * Cent + (2 * Cent) \div 5, "medium"),
     FitOutcome(TRUE, 525 * Cent + Cent \div 4, "high")}

InitLedger ==
    \E n \in 0..MaxBudgetRows, m \in 0..MaxExpenses :
      \E f \in [1..n -> RequestCats \X PlannedLedger],
         g \in [1..m -> AmountLedger],
         o \in ForecastLedger :
        /\ budget_items =
             <<BudgetItem(Cats[1], Cent, "p2", DefaultPriority, DefaultFlexible)>>
             \o [i \in 1..n |-> BudgetItem(f[i][1], f[i][2], "p1",
                                           DefaultPriority, DefaultFlexible)]
        /\ expenses =
             <<Expense("p2", 425 * Cent, Cats[1])>>
             \o [k \in 1..m |-> Expense("p1", g[k][2], g[k][1])]
        /\ prophet = [x \in Projects \X CatSet |-> o]

Idle ==
    /\ response = NoResponse /\ fit_log = {}
    /\ rental_items = <<>> /\ budget_timeline = <<>> /\ today = FirstDay
    /\ gemini = NoCall

\* every handler of the engine on budgets with forecasts that may fail
Init == InitWide /\ Idle

Next ==
    \E p \in Projects, c \in RequestCats :
      \/ PredictCategorySpending(p, c)
      \/ CheckBudgetAlerts(p, c)
      \/ GetProjectPredictions(p)
      \/ GetReallocationSuggestions(p)

Spec == Init /\ [][Next]_vars

\* forecast and alerts on varying ledgers
InitAlerts == InitLedger /\ Idle

NextAlerts ==
    \E p \in Projects, c \in RequestCats :
      \/ PredictCategorySpending(p, c)
      \/ CheckBudgetAlerts(p, c)
      \/ GetProjectPredictions(p)

SpecAlerts == InitAlerts /\ [][NextAlerts]_vars

\* reallocation on varying budgets
InitRealloc == (InitRich \/ InitWide \/ InitNear) /\ Idle

NextRealloc == GetReallocationSuggestions("p1")

SpecRealloc == InitRealloc /\ [][NextRealloc]_vars

\* reallocation on the budgets that vary priority and flexibility
InitNeed == InitRich /\ Idle

SpecNeed == InitNeed /\ [][NextRealloc]_vars

\* budget CSV uploads on a database that holds expenses of both projects
CsvName == <<"budget", ".csv">>
TxtName == <<"budget", ".txt">>

RowFood ==
    CsvRow(<<"Food">>, NumberCell(500 * Cent), NumberCell(2), NumberCell(50))
RowPadded ==
    CsvRow(<<" ", "Food", " ">>, NumberCell(0), NumberCell(2), NumberCell(50))
RowProps ==
    CsvRow(<<"Props">>, NumberCell(500 * Cent), NumberCell(2), NumberCell(50))
RowBad == CsvRow(<<"Food">>, TextCell, NumberCell(2), NumberCell(50))

BudgetRows == {RowFood, RowPadded, RowProps, RowBad}
FullColumns == RequiredColumns \cup {"Priority", "Flexible"}

BudgetFiles ==
    {CsvFile(CsvName, TRUE, RequiredColumns, rows) :
        rows \in UNION {[1..k -> BudgetRows] : k \in 0..MaxCsvRows}}
    \cup {CsvFile(CsvName, TRUE, FullColumns, <<RowProps>>),
          CsvFile(TxtName, TRUE, RequiredColumns, <<RowFood>>),
          CsvFile(CsvName, FALSE, RequiredColumns, <<>>),
          CsvFile(CsvName, TRUE, {"Category"}, <<RowFood>>)}

OtherFile == CsvFile(CsvName, TRUE, RequiredColumns, <<RowFood>>)

InitBudget ==
    /\ budget_items = <<>>
    /\ expenses = <<Expense("p1", 25 * Cent, Cats[1]),
                    Expense("p2", 25 * Cent, Cats[1])>>
    /\ prophet = [x \in Projects \X CatSet |-> FitFails]
    /\ Idle

NextBudget ==
    \/ \E file \in BudgetFiles : UploadBudgetCsv("p1", file)
    \/ UploadBudgetCsv("p2", OtherFile)

SpecBudget == InitBudget /\ [][NextBudget]_vars

\* budget CSV uploads with an empty Planned_Amount cell, then the forecast
\* endpoints, on ledgers with and without enough history
RowEmpty == CsvRow(<<"Food">>, EmptyCell, NumberCell(2), NumberCell(50))

NullableRows == {RowFood, RowPadded, RowProps, RowEmpty}

NullableFiles ==
    {CsvFile(CsvName, TRUE, FullColumns, rows) :
        rows \in UNION {[1..k -> NullableRows] : k \in 0..MaxCsvRows}}

\* a forecast whose total is 0.0
ZeroForecast == FitOutcome(TRUE, 0, "high")

InitNullable ==
    \E n \in 0..MaxCsvRows, o \in {SmallForecast, ZeroForecast, FitFails} :
      /\ budget_items = <<>>
      /\ expenses = Ledger3(n)
      /\ prophet = [x \in Projects \X CatSet |-> o]
      /\ Idle

NextNullable ==
    \/ \E file \in NullableFiles : UploadBudgetCsv("p1", file)
    \/ GetProjectPredictions("p1")
    \/ GetReallocationSuggestions("p1")

SpecNullable == InitNullable /\ [][NextNullable]_vars

\* expense uploads on budgets that have and lack the categories of the texts
ImagePng == <<"image/", "png">>
ApplicationPdf == <<"application/", "pdf">>

\* a receipt that reads 4.25, with a smaller and an out-of-range number
ReceiptTotal ==
    Receipt(TRUE, ImagePng, TRUE, <<<<"4.25">>, <<"0.05">>, <<>>>>,
            {425, 5, MaxOcrCents + 1})
\* a receipt on which the passes read nothing
ReceiptBlank == Receipt(TRUE, ImagePng, TRUE, <<<<>>, <<>>, <<>>>>, {})
\* a receipt that reads a word of the keyword table and no amount
ReceiptWords ==
    Receipt(TRUE, ImagePng, TRUE, <<<<"Truck">>, <<>>, <<>>>>, {})
\* an image PIL cannot open, and a receipt that is not an image
ReceiptBroken == Receipt(TRUE, ImagePng, FALSE, <<>>, {})
ReceiptPdf ==
    Receipt(TRUE, ApplicationPdf, TRUE, <<<<"4.25">>, <<>>, <<>>>>, {425})

ExpenseReceipts ==
    {NoReceipt, ReceiptTotal, ReceiptBlank, ReceiptBroken, ReceiptPdf}
ExpenseAmounts == {NoAmount, Amt(25 * Cent), Amt(0), Amt(-(25 * Cent)), NanAmount}

LunchWithCrew == <<"Lunch", " ", "with", " ", "crew">>
CameraTruck == <<"CAMERA", " ", "truck">>
TruckTwice == <<"truck", " ", "camera", " ", "Truck">>
Taxi == <<"taxi">>
ExpenseTexts == {<<>>, LunchWithCrew, CameraTruck, TruckTwice, Taxi}

EarlierDate == DateArg(TRUE, TRUE, FirstDay - 1)
BadDate == DateArg(TRUE, FALSE, 0)

ExpenseRequests ==
    {ExpenseRequest("p1", a, "Props", r, <<>>, NoDate) :
        a \in ExpenseAmounts, r \in ExpenseReceipts}
    \cup {ExpenseRequest(q, Amt(25 * Cent), "", NoReceipt, t, NoDate) :
            q \in Projects, t \in ExpenseTexts}
    \cup {ExpenseRequest("p1", Amt(25 * Cent), "", r, LunchWithCrew, NoDate) :
            r \in {ReceiptBlank, ReceiptWords, ReceiptBroken}}
    \cup {ExpenseRequest("p1", Amt(25 * Cent), "Props", NoReceipt, <<>>, d) :
            d \in {EarlierDate, BadDate}}

ExpenseForecasts == {FitFails, SmallForecast}

ItemFood == BudgetItem("Food", 500 * Cent, "p1", DefaultPriority, DefaultFlexible)
ItemEquipment ==
    BudgetItem("Equipment", 500 * Cent, "p1", DefaultPriority, DefaultFlexible)
ItemTransportation ==
    BudgetItem("Transportation", 500 * Cent, "p1", DefaultPriority, DefaultFlexible)

ExpenseBudgets ==
    {<<>>, <<ItemFood>>, <<ItemEquipment, ItemTransportation>>,
     <<ItemTransportation, ItemFood, ItemEquipment>>}

InitExpense ==
    /\ budget_items \in ExpenseBudgets
    /\ expenses = <<>>
    /\ prophet = [x \in Projects \X CatSet |-> FitFails]
    /\ Idle

NextExpense ==
    \E req \in ExpenseRequests, forecast \in ExpenseForecasts :
       Len(expenses) < MaxLedger /\ UploadExpense(req, forecast)

SpecExpense == InitExpense /\ [][NextExpense]_vars

\* the health check on budgets whose items raise no, two warning or two
\* critical alerts each
PlannedHealth == {10 * Cent, 12 * Cent, 17 * Cent}

InitHealth ==
    /\ \E n \in 0..WideItems :
         \E f \in [1..n -> PlannedHealth] :
           budget_items =
               [i \in 1..n |-> BudgetItem(Cats[i], f[i], "p1",
                                          DefaultPriority, DefaultFlexible)]
           /\ expenses = Ledger3(n)
    /\ prophet = [x \in Projects \X CatSet |-> SmallForecast]
    /\ Idle

NextHealth ==
    \/ ProjectHealthCheck("p1")
    \/ GetProjectSummary("p1")

SpecHealth == InitHealth /\ [][NextHealth]_vars

\* forecasts on ledgers longer than the recent window: the recent expenses
\* are 5.00 each (or all NULL, behind two older ones), the older ones 5.00 or
\* 20.00, and the forecast is a daily mean of 4.50, 4.75, 5.00, 5.25, 5.50,
\* 6.00 or 6.05 over the horizon
MaxTrendLedger == 7

RecentAmount == 500 * Cent
OlderAmounts == {500 * Cent, 2000 * Cent}
TrendMeans == {450, 475, 500, 525, 550, 600, 605}
TrendForecasts ==
    {FitFails} \cup {FitOutcome(TRUE, DaysAhead * m * Cent, "high") : m \in TrendMeans}

TrendLedger(m, older, nulls) ==
    [k \in 1..m |->
        IF k <= m - RecentWindow THEN Expense("p1", older, Cats[1])
        ELSE IF nulls THEN ExpenseRow("p1", 0, Cats[1], FirstDay, TRUE)
        ELSE Expense("p1", RecentAmount, Cats[1])]

InitTrend ==
    /\ \E m \in (MinHistory - 1)..MaxTrendLedger, older \in OlderAmounts,
          nulls \in BOOLEAN, o \in TrendForecasts :
         \* Prophet needs two rows that have an amount
         /\ nulls => m - RecentWindow >= 2
         /\ expenses = TrendLedger(m, older, nulls)
         /\ prophet = [x \in Projects \X CatSet |-> o]
    /\ budget_items = <<>>
    /\ Idle

NextTrend == PredictCategorySpending("p1", Cats[1])

SpecTrend == InitTrend /\ [][NextTrend]_vars

\* rentals of both projects that are marked as returned as the days pass
MaxRentalRows == 2
MaxDay == 3

\* return dates: due within the window, and far ahead
RentalDates ==
    {DateArg(TRUE, TRUE, FirstDay + 1), DateArg(TRUE, TRUE, FirstDay + 5),
     BadDate}

InitRental ==
    /\ budget_items = <<>>
    /\ expenses = <<>>
    /\ prophet = [x \in Projects \X CatSet |-> FitFails]
    /\ Idle

NextRental ==
    \/ \E p \in Projects, d \in RentalDates :
          /\ Len(rental_items) < MaxRentalRows
          /\ UploadRentalItem(p, "camera", "vendor", 25 * Cent, d)
    \/ \E id \in 1..(MaxRentalRows + 1) : MarkRentalReturned(id)
    \/ GetRentalStatus("p1")
    \/ today < MaxDay /\ Tick

SpecRental == InitRental /\ [][NextRental]_vars

\* calls to the Gemini API with max_retries from 0 on
MaxRetries == 4

GeminiFunctions == {"item_focus", "agentic_ai", "schedule"}

InitGemini ==
    /\ budget_items = <<>>
    /\ expenses = <<>>
    /\ prophet = [x \in Projects \X CatSet |-> FitFails]
    /\ Idle

NextGemini ==
    \/ \E fn \in GeminiFunctions,
          max_retries \in (0..MaxRetries) \cup {DefaultRetries} :
          CallGemini(fn, IF fn = "schedule" THEN 1 ELSE max_retries)
    \/ \E outcome \in StructuredOutcomes : GeminiPost(outcome)
    \/ GeminiSleep

SpecGemini == InitGemini /\ [][NextGemini]_vars

\* every operation of the service, from an empty database
ServiceFiles ==
    {OtherFile,
     CsvFile(TxtName, TRUE, RequiredColumns, <<RowFood>>),
     CsvFile(CsvName, TRUE, {"Category"}, <<RowFood>>),
     CsvFile(CsvName, TRUE, RequiredColumns, <<RowFood, RowBad>>)}

ServiceRequests ==
    {ExpenseRequest("p1", NoAmount, "", ReceiptTotal, LunchWithCrew, NoDate),
     ExpenseRequest("p2", Amt(25 * Cent), "Food", NoReceipt, <<>>, EarlierDate),
     ExpenseRequest("p1", Amt(25 * Cent), "Food", NoReceipt, <<>>, BadDate),
     ExpenseRequest("p1", NoAmount, "Food", ReceiptBlank, <<>>, NoDate)}

\* return and target dates of the requests
ServiceDates == {DateArg(TRUE, TRUE, FirstDay + 1), BadDate}

InitService ==
    /\ budget_items = <<>>
    /\ expenses = <<>>
    /\ prophet = [x \in Projects \X CatSet |-> FitFails]
    /\ Idle

NextService ==
    \/ \E file \in ServiceFiles : UploadBudgetCsv("p1", file)
    \/ \E req \in ServiceRequests, forecast \in ExpenseForecasts :
          Len(expenses) < MaxLedger /\ UploadExpense(req, forecast)
    \/ PredictCategorySpending("p1", "Food")
    \/ CheckBudgetAlerts("p1", "Food")
    \/ GetProjectSummary("p1")
    \/ GetProjectPredictions("p1")
    \/ GetReallocationSuggestions("p1")
    \/ ProjectHealthCheck("p1")
    \/ \E d \in ServiceDates :
          /\ Len(rental_items) < MaxRentals
          /\ UploadRentalItem("p1", "camera", "vendor", 25 * Cent, d)
    \/ \E id \in 1..(MaxRentals + 1) : MarkRentalReturned(id)
    \/ GetRentalStatus("p1")
    \/ \E d \in ServiceDates :
          /\ Len(budget_timeline) < MaxTimeline
          /\ UploadTimelineData("p1", "Food", 25 * Cent, d)
    \/ GetTimelineComparison("p1")

SpecService == InitService /\ [][NextService]_vars

-----------------------------------------------------------------------------
(* Claims about calculate_reallocation_suggestions *)

Reallocated ==
    response.op = "get_reallocation_suggestions" /\ response.status = 200

\* the analysis the response was computed from (the store does not change)
AnalysisOfResponse == categories_analysis(response.project_id)

SumInto(suggestions, d) ==
    SumAmounts(SelectSeq(suggestions, LAMBDA s : s.to_category = d))

\* C1: for every deficit category D, the amounts of the suggestions whose
\* to_category is D sum to at most D's overspend amount.
C1_SumWithinOverspend ==
    Reallocated =>
      LET an == AnalysisOfResponse
      IN  \A k \in 1..Len(an) :
            an[k].overspend_amount > 0 =>
              SumInto(response.suggestions, an[k].category) <= an[k].overspend_amount

\* C2: every suggestion's amount is at most half of the remaining need of
\* its deficit at the moment the suggestion is computed.
C2_AmountWithinHalfNeed ==
    Reallocated =>
      \A k \in 1..Len(response.visits) :
        response.visits[k].emitted =>
          2 * response.visits[k].amount <= response.visits[k].needed

\* position of a category in a sequence of analysis entries (0: absent)
IndexOf(seq, c) ==
    IF \E k \in 1..Len(seq) : seq[k].category = c
    THEN CHOOSE k \in 1..Len(seq) : seq[k].category = c
    ELSE 0

\* the visits made for a deficit category
VisitsFor(c) == SelectSeq(response.visits, LAMBDA v : v.to_category = c)

\* the loops visit, for each deficit in order, the surplus categories in
\* order, carry the need from visit to visit and stop on need <= 0 or at
\* the end of the surplus categories
VisitOrder ==
    LET deficits == deficit_categories(AnalysisOfResponse)
        surplus == surplus_categories(AnalysisOfResponse)
    IN  /\ \A k \in 1..Len(response.visits) :
             IndexOf(deficits, response.visits[k].to_category) # 0
        /\ \A k \in 1..(Len(response.visits) - 1) :
             IndexOf(deficits, response.visits[k].to_category)
               <= IndexOf(deficits, response.visits[k + 1].to_category)
        /\ \A d \in 1..Len(deficits) :
             LET vs == VisitsFor(deficits[d].category)
             IN  /\ Len(vs) <= Len(surplus)
                 /\ \A i \in 1..Len(vs) :
                      /\ vs[i].from_category = surplus[i].category
                      /\ vs[i].available * 100
                           = Abs(surplus[i].overspend_amount) * surplus[i].flexible
                      /\ vs[i].needed = IF i = 1 THEN deficits[d].overspend_amount
                                        ELSE vs[i - 1].needed_after
                 /\ Len(surplus) > 0 =>
                      /\ Len(vs) > 0
                      /\ \/ Len(vs) = Len(surplus)
                         \/ vs[Len(vs)].needed_after <= 0
                      /\ \A i \in 1..(Len(vs) - 1) : vs[i].needed_after > 0

PctOf(a) == IF a.planned > 0 THEN <<a.overspend_amount, a.planned>> ELSE <<0, 1>>

PctGreater(a, b) == RatLess(PctOf(b)[1], PctOf(b)[2], PctOf(a)[1], PctOf(a)[2])

SourceKeyLess(a, b) ==
    \/ a.priority < b.priority
    \/ a.priority = b.priority /\ a.flexible > b.flexible

\* C4: the suggestions are ordered by destination deficit in descending
\* overspend percentage and, within a deficit, by source in ascending
\* priority then descending flexibility; categories with equal keys keep
\* the order in which the budget items were read.
C4_SuggestionOrder ==
    Reallocated =>
      LET an == AnalysisOfResponse
      IN  \A i, j \in 1..Len(response.suggestions) :
            i < j =>
              LET ti == IndexOf(an, response.suggestions[i].to_category)
                  tj == IndexOf(an, response.suggestions[j].to_category)
                  fi == IndexOf(an, response.suggestions[i].from_category)
                  fj == IndexOf(an, response.suggestions[j].from_category)
              IN  IF ti # tj
                  THEN \/ PctGreater(an[ti], an[tj])
                       \/ ~PctGreater(an[tj], an[ti]) /\ ti < tj
                  ELSE \/ SourceKeyLess(an[fi], an[fj])
                       \/ ~SourceKeyLess(an[fj], an[fi]) /\ fi < fj

\* two sources with equal keys give to one deficit
C4_Witness ==
    /\ Reallocated
    /\ LET an == AnalysisOfResponse
       IN  \E i, j \in 1..Len(response.suggestions) :
             LET fi == IndexOf(an, response.suggestions[i].from_category)
                 fj == IndexOf(an, response.suggestions[j].from_category)
             IN  /\ i < j
                 /\ response.suggestions[i].to_category
                      = response.suggestions[j].to_category
                 /\ an[fi].priority = an[fj].priority
                 /\ an[fi].flexible = an[fj].flexible

-----------------------------------------------------------------------------
(* Claims about check_budget_alerts *)

Alerted == response.op = "check_budget_alerts"

\* the budget item the alerts of the response were checked against
HasItem ==
    \E k \in 1..Len(budget_items) :
      /\ budget_items[k].project_id = response.project_id
      /\ budget_items[k].category = response.category

ItemOfResponse ==
    budget_items[CHOOSE k \in 1..Len(budget_items) :
      /\ budget_items[k].project_id = response.project_id
      /\ budget_items[k].category = response.category
      /\ \A j \in 1..(k - 1) :
           ~(/\ budget_items[j].project_id = response.project_id
             /\ budget_items[j].category = response.category)]

\* number of expenses, and their sum, recorded for a category of a project
CountOf(p, c) ==
    Cardinality({k \in 1..Len(expenses) :
                   expenses[k].project_id = p /\ expenses[k].category = c})

RECURSIVE SumUpTo(_, _, _)
SumUpTo(k, p, c) ==
    IF k = 0 THEN 0
    ELSE SumUpTo(k - 1, p, c)
         + (IF expenses[k].project_id = p /\ expenses[k].category = c
            THEN expenses[k].amount ELSE 0)

SpentOfResponse == SumUpTo(Len(expenses), response.project_id, response.category)
PlannedOfResponse == ItemOfResponse.planned_amount

AlertsOfType(t) == SelectSeq(response.alerts, LAMBDA a : a.type = t)

\* C5: for a category with a budget item whose recorded spend is greater
\* than the planned amount, the alerts hold exactly one overspend alert,
\* and its severity is critical.
C5_OneCriticalOverspend ==
    (Alerted /\ HasItem /\ SpentOfResponse > PlannedOfResponse) =>
      /\ ~response.raised
      /\ Len(AlertsOfType("overspend")) = 1
      /\ AlertsOfType("overspend")[1].severity = "critical"

\* spend above a positive plan, with a forecast that adds a second alert
C5_Witness ==
    /\ Alerted /\ HasItem
    /\ PlannedOfResponse > 0
    /\ SpentOfResponse > PlannedOfResponse
    /\ Len(AlertsOfType("overspend")) = 1
    /\ Len(response.alerts) = 2

\* C6: at exactly 85% of planned (and not over budget) there is no
\* high_utilization alert; strictly above 85% and not above planned there
\* is one.
C6_StrictBoundary ==
    (Alerted /\ HasItem /\ SpentOfResponse <= PlannedOfResponse) =>
      /\ 100 * SpentOfResponse = 85 * PlannedOfResponse =>
           Len(AlertsOfType("high_utilization")) = 0
      /\ 100 * SpentOfResponse > 85 * PlannedOfResponse =>
           Len(AlertsOfType("high_utilization")) = 1

\* a positive plan spent to exactly 85%
C6_Witness ==
    /\ Alerted /\ HasItem
    /\ PlannedOfResponse > 0
    /\ 100 * SpentOfResponse = 85 * PlannedOfResponse
    /\ Len(AlertsOfType("high_utilization")) = 0

\* C7 as stated: a high_utilization alert is emitted exactly when the spend
\* is at least 85% of (a positive) planned and does not exceed planned.
C7_AtLeast85 ==
    (Alerted /\ HasItem /\ PlannedOfResponse > 0) =>
      (Len(AlertsOfType("high_utilization")) > 0
         <=> /\ 100 * SpentOfResponse >= 85 * PlannedOfResponse
             /\ SpentOfResponse <= PlannedOfResponse)

\* C7, amended: a high_utilization alert, of severity warning, is emitted
\* exactly when the spend is strictly more than 85% of planned and does not
\* exceed planned.
C7_Above85 ==
    (Alerted /\ HasItem) =>
      /\ Len(AlertsOfType("high_utilization")) =
           (IF /\ 100 * SpentOfResponse > 85 * PlannedOfResponse
               /\ SpentOfResponse <= PlannedOfResponse
            THEN 1 ELSE 0)
      /\ \A k \in 1..Len(AlertsOfType("high_utilization")) :
           AlertsOfType("high_utilization")[k].severity = "warning"

\* a high_utilization warning together with a predicted overspend
C7_Witness ==
    /\ Alerted /\ HasItem
    /\ Len(AlertsOfType("high_utilization")) = 1
    /\ Len(AlertsOfType("predictive_overspend")) = 1

\* the forecast of the category of the response
ForecastOfResponse ==
    predict_category_spending(response.project_id, response.category,
                              DaysAhead).predicted_total

\* C8: a predictive_overspend alert is in the alerts exactly when a forecast
\* total is available and spent + forecast total > planned, whatever other
\* alert fired; it is a warning when the overshoot is below 20% of planned
\* and critical otherwise, a planned amount of 0 included.
C8_PredictiveOverspend ==
    (Alerted /\ HasItem) =>
      LET predicted == AlertsOfType("predictive_overspend")
          expected == /\ ~IsNone(ForecastOfResponse)
                      /\ SpentOfResponse + Val(ForecastOfResponse) > PlannedOfResponse
          overshoot == SpentOfResponse + Val(ForecastOfResponse) - PlannedOfResponse
      IN  /\ ~response.raised
          /\ Len(predicted) = (IF expected THEN 1 ELSE 0)
          /\ expected =>
               predicted[1].severity =
                 (IF 100 * overshoot < 20 * PlannedOfResponse
                  THEN "warning" ELSE "critical")

\* a planned amount of 0, overspent and predicted to be overspent
C8_Witness ==
    /\ Alerted /\ HasItem
    /\ PlannedOfResponse = 0
    /\ Len(AlertsOfType("overspend")) = 1
    /\ Len(AlertsOfType("predictive_overspend")) = 1

-----------------------------------------------------------------------------
(* Claims about predict_category_spending *)

Predicted == response.op = "predict_category_spending"

\* C9: with fewer than 3 expenses of the category in the project the result
\* has predicted_total none, trend "insufficient_data" and confidence "low",
\* and no model is fitted.
C9_InsufficientData ==
    (Predicted /\ CountOf(response.project_id, response.category) < 3) =>
      /\ IsNone(response.result.predicted_total)
      /\ response.result.trend = "insufficient_data"
      /\ response.result.confidence = "low"
      /\ fit_log = {}

\* two expenses on which Prophet would have succeeded
C9_Witness ==
    /\ Predicted
    /\ CountOf(response.project_id, response.category) = 2
    /\ prophet[<<response.project_id, response.category>>].ok
    /\ response.result.trend = "insufficient_data"

\* Prophet raises on the ledger of a category with at least 3 expenses
FitFailsOn(p, c) == CountOf(p, c) >= 3 /\ ~prophet[<<p, c>>].ok

\* C10: when the fit fails for a category with at least 3 expenses, the
\* result has trend "error", confidence "low" and predicted_total none and
\* nothing is raised; the alerts, the predictions and the reallocation then
\* treat the category as having no forecast.
C10_FitFailureDegrades ==
    /\ (Predicted /\ FitFailsOn(response.project_id, response.category)) =>
         /\ ~response.result.raised
         /\ IsNone(response.result.predicted_total)
         /\ response.result.trend = "error"
         /\ response.result.confidence = "low"
    /\ (Alerted /\ FitFailsOn(response.project_id, response.category)) =>
         /\ ~response.raised
         /\ Len(AlertsOfType("predictive_overspend")) = 0
    /\ response.op = "get_project_predictions" =>
         /\ response.status = 200
         /\ \A k \in 1..Len(response.predictions) :
              FitFailsOn(response.project_id, response.predictions[k].category) =>
                /\ response.predictions[k].status = "on_track"
                /\ IsNone(response.predictions[k].prediction.predicted_total)
                /\ response.predictions[k].prediction.trend = "error"
    /\ response.op = "get_reallocation_suggestions" =>
         /\ response.status = 200
         /\ \A k \in 1..Len(response.suggestions) :
              /\ ~FitFailsOn(response.project_id, response.suggestions[k].from_category)
              /\ ~FitFailsOn(response.project_id, response.suggestions[k].to_category)

\* a failed fit reported by predict_category_spending
C10_Witness ==
    /\ Predicted
    /\ FitFailsOn(response.project_id, response.category)
    /\ response.result.trend = "error"

-----------------------------------------------------------------------------
(* Claims about upload_budget_csv *)

UploadedBudget == response.op = "upload_budget_csv"

\* the rows of project p in a budget_items table
ItemsIn(table, p) == SelectSeq(table, LAMBDA b : b.project_id = p)

\* the i-th stored item is the i-th row of the file
ItemIsRow(item, row, columns, p) ==
    /\ item.project_id = p
    /\ item.category = Strip(row.Category)
    /\ item.planned_amount = row.Planned_Amount.value
    /\ item.priority =
         (IF "Priority" \in columns THEN row.Priority.value ELSE DefaultPriority)
    /\ item.flexible =
         (IF "Flexible" \in columns THEN row.Flexible.value ELSE DefaultFlexible)

\* C11: an accepted budget CSV upload for project P leaves P with exactly the
\* rows of the new CSV as its budget items, in order, and changes neither an
\* expense nor a budget item of another project
C11_UploadReplaces ==
    [][(response'.op = "upload_budget_csv" /\ response'.status = 200) =>
         LET p == response'.project_id
             file == response'.file
             after == ItemsIn(budget_items', p)
         IN  /\ Len(after) = Len(file.rows)
             /\ \A i \in 1..Len(after) :
                  ItemIsRow(after[i], file.rows[i], file.columns, p)
             /\ expenses' = expenses
             /\ \A q \in Projects \ {p} :
                  ItemsIn(budget_items', q) = ItemsIn(budget_items, q)]_vars

\* a re-upload that removed rows, of a file with a padded category, while the
\* other project has items and the ledger has expenses of both projects
C11_Witness ==
    /\ UploadedBudget /\ response.status = 200
    /\ response.deleted > 0
    /\ \E i \in 1..Len(response.file.rows) :
         response.file.rows[i].Category # <<Strip(response.file.rows[i].Category)>>
    /\ \E q \in Projects \ {response.project_id} : ItemsOf(q) # <<>>
    /\ \A q \in Projects : \E k \in 1..Len(expenses) : expenses[k].project_id = q

\* C12: a project never holds two budget items of one category name
C12_UniqueCategory ==
    \A i, j \in 1..Len(budget_items) :
       (/\ budget_items[i].project_id = budget_items[j].project_id
        /\ budget_items[i].category = budget_items[j].category) => i = j

\* C15: a budget CSV upload that is not accepted leaves the budget items and
\* the expenses as they were
C15_FailedUploadKeepsState ==
    [][(response'.op = "upload_budget_csv" /\ response'.status # 200) =>
         /\ budget_items' = budget_items
         /\ expenses' = expenses]_vars

\* a row that cannot be converted, after the delete and after a row that
\* could, in an upload for a project that holds items
C15_Witness ==
    /\ UploadedBudget /\ response.status # 200
    /\ response.raised = "ValueError"
    /\ ~response.file.rows[Len(response.file.rows)].Planned_Amount.numeric
    /\ response.file.rows[1].Planned_Amount.numeric
    /\ ItemsOf(response.project_id) # <<>>

-----------------------------------------------------------------------------
(* Claims about upload_expense *)

UploadedExpense == response.op = "upload_expense"

\* the row the last request recorded
Recorded == expenses[Len(expenses)]

\* an image receipt was supplied and extraction yielded an amount
OcrYielded(req) ==
    IsImage(req.receipt) /\ req.receipt.decodable
        /\ \E m \in req.receipt.matches : MinOcrCents <= m /\ m <= MaxOcrCents

\* C16: the recorded amount is the OCR amount when an image receipt yielded
\* one and the manual amount otherwise, a request in which neither is a
\* positive amount records nothing, and every recorded expense has a
\* positive amount
C16_AmountPrecedence ==
    /\ (UploadedExpense /\ response.recorded) =>
          IF OcrYielded(response.request)
          THEN \E m \in response.request.receipt.matches :
                  /\ Recorded.amount = m * Cent
                  /\ \A k \in response.request.receipt.matches :
                       (MinOcrCents <= k /\ k <= MaxOcrCents) => k <= m
          ELSE /\ response.request.amount.given
               /\ Recorded.amount = response.request.amount.value
    /\ (/\ UploadedExpense
        /\ ~OcrYielded(response.request)
        /\ ~(/\ response.request.amount.given
             /\ ~response.request.amount.nan
             /\ response.request.amount.value > 0))
          => (~response.recorded /\ response.status # 200)
    /\ \A k \in 1..Len(expenses) :
          ~expenses[k].amount_null /\ expenses[k].amount > 0

\* the text the categorization reads: receipt text, else description
TextOf(req) ==
    IF Extracted(req).text # <<>> THEN Extracted(req).text ELSE req.description

AllCategories ==
    {category_patterns[k].category : k \in 1..Len(category_patterns)}

\* c is the first category of the table with the highest score of the text,
\* scored over the categories in known; "Misc" if no score is positive
IsHighestScore(c, text, known) ==
    IF \A k \in 1..Len(category_patterns) : ScoreOf(k, text, known) = 0
    THEN c = "Misc"
    ELSE \E k \in 1..Len(category_patterns) :
            /\ c = category_patterns[k].category
            /\ \A j \in 1..Len(category_patterns) :
                 /\ ScoreOf(j, text, known) <= ScoreOf(k, text, known)
                 /\ j < k => ScoreOf(j, text, known) < ScoreOf(k, text, known)

\* C17 as stated: with no explicit category the expense gets the category
\* of the highest keyword score for its text, "Misc" if nothing matches or
\* the project has no category list, and "lunch with crew" gives "Food"; an
\* explicit category is stored as given
C17_HighestScore ==
    (UploadedExpense /\ response.recorded) =>
       IF response.request.category # ""
       THEN Recorded.category = response.request.category
       ELSE IF ItemsOf(response.project_id) = <<>>
       THEN Recorded.category = "Misc"
       ELSE /\ IsHighestScore(Recorded.category, TextOf(response.request),
                              AllCategories)
            /\ TextOf(response.request) = LunchWithCrew
                 => Recorded.category = "Food"

\* C17: with no explicit category the expense gets the category of the
\* highest keyword score for its text among the categories of the project's
\* budget items (the first of the table on equal scores), "Misc" if none of
\* them matches; "lunch with crew" gives "Food" exactly when the project has
\* a Food budget item; an explicit category is stored as given
C17_HighestAvailableScore ==
    (UploadedExpense /\ response.recorded) =>
       IF response.request.category # ""
       THEN Recorded.category = response.request.category
       ELSE /\ IsHighestScore(Recorded.category, TextOf(response.request),
                   get_available_categories(response.project_id))
            /\ TextOf(response.request) = LunchWithCrew
                 => (Recorded.category = "Food"
                       <=> \E i \in 1..Len(budget_items) :
                              /\ budget_items[i].project_id = response.project_id
                              /\ budget_items[i].category = "Food")

\* a text that scores for two categories of the project, one of them
\* assigned, recorded for a project that lacks a third category of the table
C17_Witness ==
    /\ UploadedExpense /\ response.recorded
    /\ response.request.category = ""
    /\ Recorded.category # "Misc"
    /\ \E j, k \in 1..Len(category_patterns) :
         /\ j # k
         /\ ScoreOf(j, TextOf(response.request),
                    get_available_categories(response.project_id)) > 0
         /\ ScoreOf(k, TextOf(response.request),
                    get_available_categories(response.project_id)) > 0

-----------------------------------------------------------------------------
(* Claims about the service as a whole *)

\* C13: no step of the service modifies or removes an expense of the ledger:
\* the ledger before a step is a prefix of the ledger after it
C13_LedgerAppendOnly ==
    [][/\ Len(expenses') >= Len(expenses)
       /\ \A k \in 1..Len(expenses) : expenses'[k] = expenses[k]]_vars

\* a budget re-upload that removed the items of a project with recorded
\* expenses, the ledger being full
C13_Witness ==
    /\ UploadedBudget /\ response.status = 200 /\ response.deleted > 0
    /\ Len(expenses) = MaxLedger
    /\ \E k \in 1..Len(expenses) : expenses[k].project_id = response.project_id

\* the request the response answers failed validation
FailedValidation ==
    \/ /\ UploadedBudget
       /\ \/ ~EndsWithCsv(response.file.filename)
          \/ ~(RequiredColumns \subseteq response.file.columns)
          \/ \E i \in 1..Len(response.file.rows) :
                ~response.file.rows[i].Planned_Amount.numeric
    \/ /\ UploadedExpense
       /\ \/ response.request.date.given /\ ~response.request.date.valid
          \/ /\ ~OcrYielded(response.request)
             /\ ~(response.request.amount.given
                    /\ response.request.amount.value > 0)

\* C14: a request that fails validation is answered with a 4xx status
C14_ValidationIsClientError ==
    FailedValidation => (400 <= response.status /\ response.status <= 499)

-----------------------------------------------------------------------------
(* Claims about project_health_check *)

HealthChecked ==
    response.op = "project_health_check" /\ response.status = 200

\* alerts of the given severity over the budget items of the project
RECURSIVE SeverityOver(_, _, _)
SeverityOver(items, p, severity) ==
    IF items = <<>> THEN 0
    ELSE CountSeverity(check_budget_alerts(p, Head(items).category), severity)
         + SeverityOver(Tail(items), p, severity)

\* C18: the health score is max(0, 100 - 15 x critical - 5 x warning) over
\* the alerts of all budget items of the project, lies in 0..100, and the
\* reported counts are the counts of those alerts
C18_HealthScore ==
    HealthChecked =>
       LET critical == SeverityOver(ItemsOf(response.project_id),
                                    response.project_id, "critical")
           warning == SeverityOver(ItemsOf(response.project_id),
                                   response.project_id, "warning")
           raw == 100 - 15 * critical - 5 * warning
       IN  /\ response.health_score = (IF raw < 0 THEN 0 ELSE raw)
           /\ response.health_score \in 0..100
           /\ response.critical_alerts = critical
           /\ response.warnings = warning
           /\ response.total_alerts = critical + warning

\* deductions for critical and for warning alerts that exceed 100
C18_Witness ==
    /\ HealthChecked
    /\ response.health_score = 0
    /\ response.critical_alerts > 0 /\ response.warnings > 0
    /\ 15 * response.critical_alerts + 5 * response.warnings > 100

-----------------------------------------------------------------------------
(* Claims about repeated and unplanned checks *)

\* C19: a forecast or an alert check leaves the ledger and the budget items
\* as they were, and run again for the same category on the unchanged store
\* it returns the same result
C19_SameResult ==
    [][(/\ response'.op \in {"predict_category_spending", "check_budget_alerts"}
        /\ response.op = response'.op
        /\ response.project_id = response'.project_id
        /\ response.category = response'.category)
          => (/\ expenses' = expenses
              /\ budget_items' = budget_items
              /\ response' = response)]_vars

\* C20: for a category without a budget item in the project the alert check
\* returns no alert, whatever the ledger holds, and fits no model
C20_NoPlanNoAlert ==
    (Alerted /\ ~HasItem) => (response.alerts = <<>> /\ fit_log = {})

\* no budget item for the category, while the project has another item, the
\* ledger has enough expenses of the category for a forecast and Prophet
\* returns one
C20_Witness ==
    /\ Alerted /\ ~HasItem
    /\ ItemsOf(response.project_id) # <<>>
    /\ Len(ExpensesOf(response.project_id, response.category)) >= MinHistory
    /\ TotalSpent(response.project_id, response.category) > 0
    /\ ~IsNone(ForecastOfResponse) /\ Val(ForecastOfResponse) > 0

-----------------------------------------------------------------------------
(* Claims about the trend of a forecast *)

\* the most recent 5 rows of the ledger of the forecast's category, in date
\* order, that have an amount
RecentRows ==
    LET es == ExpensesOf(response.project_id, response.category)
        n == IF Len(es) < 5 THEN Len(es) ELSE 5
    IN  SelectSeq([k \in 1..n |-> es[Len(es) - n + k]],
                  LAMBDA e : ~e.amount_null)

\* delta = (future mean - recent mean) / recent mean * 100 as the fraction
\* DeltaNum / DeltaDen, with the future mean yhat_sum / 30 and the recent
\* mean the sum of RecentRows over their number
DeltaNum ==
    prophet[<<response.project_id, response.category>>].yhat_sum * Len(RecentRows)
        - 30 * SumAmounts(RecentRows)
DeltaDen == 30 * SumAmounts(RecentRows)

\* delta > k percent, delta < k percent
DeltaAbove(k) == RatLess(k, 100, DeltaNum, DeltaDen)
DeltaBelow(k) == RatLess(DeltaNum, DeltaDen, k, 100)

Forecast == Predicted /\ ~IsNone(response.result.predicted_total)

\* C22: the trend of a forecast is accelerating when delta > 20, increasing
\* when 5 < delta <= 20, decreasing when delta < -5 and stable otherwise,
\* also when the recent mean is not positive; delta is the percentage by which
\* the predicted daily mean exceeds the mean of the most recent 5 observations.
C22_TrendClasses ==
    Forecast =>
      response.result.trend =
        IF RecentRows = <<>> \/ SumAmounts(RecentRows) <= 0 THEN "stable"
        ELSE IF DeltaAbove(20) THEN "accelerating"
        ELSE IF DeltaAbove(5) THEN "increasing"
        ELSE IF DeltaBelow(-5) THEN "decreasing"
        ELSE "stable"

\* a delta of exactly 20 on a ledger whose older expenses differ from the
\* recent five
C22_Witness ==
    /\ Forecast
    /\ Len(ExpensesOf(response.project_id, response.category)) > 5
    /\ RecentRows # <<>> /\ DeltaNum * 5 = DeltaDen
    /\ Head(ExpensesOf(response.project_id, response.category)).amount
           # RecentRows[1].amount
    /\ response.result.trend = "increasing"

-----------------------------------------------------------------------------
(* Claims about what one source gives over all deficits *)

RECURSIVE SumFrom(_, _)
SumFrom(suggestions, s) ==
    IF suggestions = <<>> THEN 0
    ELSE (IF Head(suggestions).from_category = s
          THEN Head(suggestions).amount ELSE 0)
         + SumFrom(Tail(suggestions), s)

\* C25: within one result, the amounts of all suggestions drawn from one
\* surplus category, over all deficit categories, sum to no more than
\* |overspend_amount| x flexible of that category.
C25_SourceWithinTransferable ==
    Reallocated =>
      \A i \in 1..Len(AnalysisOfResponse) :
        LET a == AnalysisOfResponse[i]
        IN  a.overspend_amount < 0 =>
              SumFrom(response.suggestions, a.category) * 100
                  <= Abs(a.overspend_amount) * a.flexible

-----------------------------------------------------------------------------
(* Claims about the remaining need *)

-----------------------------------------------------------------------------
(* Claims about the two ends of a suggestion *)

\* a forecast is available for the category: at least 3 expenses and a fit
\* that succeeds
Forecastable(p, c) == CountOf(p, c) >= 3 /\ prophet[<<p, c>>].ok

\* spent + forecast total - planned of a budget item
OverspendOf(item) ==
    SumUpTo(Len(expenses), item.project_id, item.category)
        + Round2(prophet[<<item.project_id, item.category>>].yhat_sum)
        - item.planned_amount

\* the budget items of the response's project that have the category
ItemsNamed(c) ==
    {j \in 1..Len(budget_items) :
        /\ budget_items[j].project_id = response.project_id
        /\ budget_items[j].category = c}

IsSource(c) ==
    \E j \in ItemsNamed(c) :
       Forecastable(response.project_id, c) /\ OverspendOf(budget_items[j]) < 0

IsTarget(c) ==
    \E j \in ItemsNamed(c) :
       Forecastable(response.project_id, c) /\ OverspendOf(budget_items[j]) > 0

\* C28: every suggestion has a positive amount, a source category with a
\* forecast and a negative overspend amount, and a different destination
\* category with a forecast and a positive overspend amount; a category
\* without a forecast or with an overspend amount of 0 is at neither end.
C28_SuggestionEnds ==
    Reallocated =>
      \A k \in 1..Len(response.suggestions) :
        LET s == response.suggestions[k]
        IN  /\ s.amount > 0
            /\ s.from_category # s.to_category
            /\ IsSource(s.from_category)
            /\ IsTarget(s.to_category)

-----------------------------------------------------------------------------
(* Claims about the status of a prediction *)

\* C29: on the same store and a 30-day horizon, the predictions endpoint
\* reports a category as "at_risk" exactly when check_budget_alerts emits a
\* predictive_overspend alert for it, and as "on_track" otherwise, also when
\* the forecast total is 0.
C29_AtRiskIffPredictiveAlert ==
    (response.op = "get_project_predictions" /\ response.status = 200) =>
      \A k \in 1..Len(response.predictions) :
        LET entry == response.predictions[k]
            alerts == check_budget_alerts(response.project_id, entry.category)
            alerted == \E j \in 1..Len(alerts) :
                          alerts[j].type = "predictive_overspend"
        IN  entry.status = IF alerted THEN "at_risk" ELSE "on_track"

-----------------------------------------------------------------------------
(* Claims about returned rentals *)

\* the rental of an id, as a set of at most one row
RentalOf(table, id) == {table[k] : k \in {j \in 1..Len(table) : table[j].id = id}}

Returned(table) ==
    {table[k].id : k \in {j \in 1..Len(table) : ~IsNone(table[j].returned_on)}}

\* a rental that is marked as returned keeps its returned_on date
ReturnedOnKept ==
    \A id \in Returned(rental_items) :
       /\ RentalOf(rental_items', id) # {}
       /\ \A r \in RentalOf(rental_items, id), s \in RentalOf(rental_items', id) :
             s.returned_on = r.returned_on

\* a repeated call and a call with an unknown id write nothing
MarkWritesNothing ==
    (/\ response'.op = "mark_rental_returned"
     /\ response' # response
     /\ \/ response'.rental_id \in Returned(rental_items)
        \/ RentalOf(rental_items, response'.rental_id) = {}) =>
      /\ rental_items' = rental_items
      /\ IF RentalOf(rental_items, response'.rental_id) = {}
         THEN response'.status = 404
         ELSE response'.status = 200 /\ response'.already

\* a rental check reports the returned rentals as "Returned" and counts none
\* of them as overdue
ReportedReturned ==
    response.op = "get_rental_status" =>
      /\ \A k \in 1..Len(response.rental_status) :
            response.rental_status[k].rental_id \in Returned(rental_items) =>
               response.rental_status[k].status = "Returned"
      /\ response.overdue_count =
            Cardinality({k \in 1..Len(rental_items) :
                           /\ rental_items[k].project_id = response.project_id
                           /\ IsNone(rental_items[k].returned_on)
                           /\ rental_items[k].return_date < today})

\* C30: once mark_rental_returned has succeeded for a rental its returned_on
\* date never changes again: a repeated call reports it as already returned
\* and writes nothing, an unknown id yields 404 and writes nothing; and every
\* later rental check reports the rental as "Returned" and does not count it
\* as overdue, whatever its return_date.
C30_ReturnedStays ==
    [][ReturnedOnKept /\ MarkWritesNothing
          /\ (response' # response => ReportedReturned')]_vars

\* a rental check after the return date of a returned rental has passed
C30_Witness ==
    /\ response.op = "get_rental_status"
    /\ \E k \in 1..Len(rental_items) :
          /\ rental_items[k].project_id = response.project_id
          /\ ~IsNone(rental_items[k].returned_on)
          /\ rental_items[k].return_date < today
          /\ \E j \in 1..Len(response.rental_status) :
                /\ response.rental_status[j].rental_id = rental_items[k].id
                /\ response.rental_status[j].status = "Returned"
    /\ response.overdue_count = 0

-----------------------------------------------------------------------------
(* Claims about the response of upload_expense and the ledger *)

\* C26: a request to upload_expense that is answered with an error (4xx or
\* 5xx) has added no expense to the ledger, and an expense is added only by a
\* request that is answered with success, whatever the budget.
C26_ErrorMeansNotRecorded ==
    [][/\ (response'.op = "upload_expense" /\ response'.status >= 400)
            => expenses' = expenses
       /\ expenses' # expenses
            => response'.op = "upload_expense" /\ response'.status = 200]_vars

-----------------------------------------------------------------------------
(* Claims about the calls to the Gemini API *)

Posts == SelectSeq(gemini.events, LAMBDA e : e.kind = "post")

\* the call stands right after its i-th event, or went on from it with e
After(i, pc, result) ==
    i = Len(gemini.events) /\ gemini.pc = pc /\ gemini.result = result

\* C23: call_gemini_api (item_focus.py) and call_gemini_api_structured
\* (agentic_ai.py) make at most max_retries requests; after a network failure
\* on attempt k that is not the last they wait 2^k seconds and retry, after
\* the last failed attempt they return none without waiting, a non-network
\* error returns none at once without a retry, and a success returns at once.
C23_BoundedBackoff ==
    gemini.fn \in {"item_focus", "agentic_ai"} =>
      /\ Len(Posts) <= gemini.max_retries
      /\ \A i \in 1..Len(gemini.events) :
           LET e == gemini.events[i]
               last == e.attempt >= gemini.max_retries - 1
           IN  CASE e.kind = "sleep" ->
                      /\ e.wait = 2 ^ e.attempt
                      /\ gemini.events[i - 1].kind = "post"
                      /\ gemini.events[i - 1].outcome = "RequestException"
                      /\ \/ After(i, "request", "")
                         \/ /\ i < Len(gemini.events)
                            /\ gemini.events[i + 1].kind = "post"
                            /\ gemini.events[i + 1].attempt = e.attempt + 1
                 [] e.outcome = "RequestException" /\ ~last ->
                      \/ After(i, "sleep", "")
                      \/ /\ i < Len(gemini.events)
                         /\ gemini.events[i + 1].kind = "sleep"
                         /\ gemini.events[i + 1].attempt = e.attempt
                 [] e.outcome = "RequestException" /\ last ->
                      After(i, "done", "none")
                 [] e.outcome = "text" -> After(i, "done", "value")
                 [] OTHER -> After(i, "done", "none")

\* C24: call_gemini_api in schedule.py retries: a failed network request is
\* attempted again before the function gives up and returns none.
C24_ScheduleRetries ==
    (/\ gemini.fn = "schedule"
     /\ gemini.pc = "done"
     /\ Posts[Len(Posts)].outcome = "RequestException") =>
       Len(Posts) >= 2

\* C21: the predictions and reallocation-suggestions endpoints answer every
\* state of the store with a successful, well-formed envelope: status 200, an
\* entry for each budget item of the project in predictions, a list of
\* suggestions; no state of the store makes them a server error
C21_AlwaysEnvelope ==
    /\ response.op = "get_project_predictions" =>
          /\ response.status = 200
          /\ Len(response.predictions) = Len(ItemsOf(response.project_id))
    /\ response.op = "get_reallocation_suggestions" =>
          /\ response.status = 200
          /\ "suggestions" \in DOMAIN response

====
